---------------------------- MODULE Spec2Model ----------------------------
(***************************************************************************)
(* A model of the argument resolution engine of the vendored `revel`       *)
(* library: common.choose_string (the fuzzy matcher), parse_value and its  *)
(* helpers (the value coercer) and argument_parser.Parser (the token       *)
(* parser: feed_one, _feed_flags, finish).                                 *)
(*                                                                         *)
(* A Python str is a sequence of one-character strings, so that the        *)
(* regular expressions, str.strip, str.lower, str.replace and the `in`     *)
(* substring test are computed character by character.                     *)
(***************************************************************************)
EXTENDS Integers, Sequences, FiniteSets, TLC

VARIABLES
    \* ---- Parser object (argument_parser.py, Parser.__init__) ----
    parameters,                       \* self.parameters
    assigned_parameters,              \* self.assigned_parameters (insertion-ordered dict)
    current_parameter,                \* self.current_parameter
    allow_flags,                      \* self.allow_flags
    rest,                             \* self.rest
    errors,                           \* self.errors
    next_positional_parameter_index,  \* self.next_positional_parameter_index
    \* ---- one run of feed_many / finish ----
    pc,                               \* where parse_function_parameters and its
                                      \* caller are: "feeding", "finished",
                                      \* "asking", "returned", "called"; "failed",
                                      \* "cancelled", "raised"; "idle"
    allow_missing_arguments,          \* the argument of finish
    result,                           \* the dict finish returns
    fed,                              \* the values fed so far, in order
    steps,                            \* the branch of feed_one each of them took
    \* ---- one call of common.choose_string ----
    options,                          \* its argument `options`
    selection,                        \* its argument `selection`
    chosen,                           \* what it returned or raised
    \* ---- one call of parse_value ----
    value,                            \* its argument `value`
    typ,                              \* its argument `typ`
    parsed,                           \* what it returned or raised
    \* ---- the rest of parse_function_parameters, and its caller ----
    missing_params,                   \* the set missing_params (indexes of parameters)
    asking,                           \* the parameter being asked for, 0 if none
    asked,                            \* the parameter of every prompt shown, in order
    \* ---- one call of parse_function_name ----
    raw_args,                         \* its argument raw_args
    interactive,                      \* its argument interactive
    selected,                         \* what it returned or raised
    menu,                             \* the options of the menu it showed, if any
    \* ---- App.run around parse_function_parameters ----
    user_provided_parameters,         \* command.user_provided_parameters
    prompts,                          \* the prompt of each of self.parameters
    returned                          \* by_position and by_name, once returned

vars == <<parameters, assigned_parameters, current_parameter, allow_flags, rest,
          errors, next_positional_parameter_index, pc, allow_missing_arguments,
          result, fed, steps, options, selection, chosen, value, typ, parsed,
          missing_params, asking, asked, raw_args, interactive, selected, menu,
          user_provided_parameters, prompts, returned>>

parserVars == <<parameters, assigned_parameters, current_parameter, allow_flags,
                rest, errors, next_positional_parameter_index, pc,
                allow_missing_arguments, result, fed, steps>>

chooseVars == <<options, selection, chosen>>

valueVars == <<value, typ, parsed>>

askVars == <<missing_params, asking, asked>>

nameVars == <<raw_args, interactive, selected, menu>>

appVars == <<user_provided_parameters, prompts, returned>>

(***************************************************************************)
(* Bounds of the model.                                                    *)
(***************************************************************************)
\* the longest list of values fed to one Parser
MaxTokens == 3

\* the most name groups handed to one call of choose_string
MaxGroups == 2

\* the most members of a Literal type
MaxLiterals == 2

\* the most prompts shown in one call of parse_function_parameters
MaxPrompts == 3

\* the longest raw_args handed to parse_function_name
MaxArgs == 2

\* the most Parameter objects one command is registered with
MaxUserParameters == 2

(***************************************************************************)
(* Characters and strings.                                                 *)
(***************************************************************************)
LowerCase == <<"a", "b", "c", "d", "e", "f", "g", "h", "i", "j", "k", "l", "m",
               "n", "o", "p", "q", "r", "s", "t", "u", "v", "w", "x", "y", "z">>

UpperCase == <<"A", "B", "C", "D", "E", "F", "G", "H", "I", "J", "K", "L", "M",
               "N", "O", "P", "Q", "R", "S", "T", "U", "V", "W", "X", "Y", "Z">>

DigitChars == <<"0", "1", "2", "3", "4", "5", "6", "7", "8", "9">>

Range(s) == {s[i] : i \in DOMAIN s}

IndexOf(s, c) == CHOOSE i \in DOMAIN s : s[i] = c

IsLetter(c) == c \in Range(LowerCase) \cup Range(UpperCase)

IsDigit(c) == c \in Range(DigitChars)

\* the characters str.strip() removes
IsSpace(c) == c \in {" ", "\t", "\n"}

\* `.` of a regular expression compiled without DOTALL
IsDot(c) == c # "\n"

DigitValue(c) == IndexOf(DigitChars, c) - 1

Drop(s, n) == SubSeq(s, n + 1, Len(s))

Take(s, n) == SubSeq(s, 1, n)

\* str.lower
lower(s) ==
    [i \in DOMAIN s |->
        IF s[i] \in Range(UpperCase) THEN LowerCase[IndexOf(UpperCase, s[i])]
        ELSE s[i]]

Min(S) == CHOOSE i \in S : \A j \in S : i <= j

Max(S) == CHOOSE i \in S : \A j \in S : j <= i

Kept(s, keep) == IF keep = {} THEN <<>> ELSE SubSeq(s, Min(keep), Max(keep))

\* str.strip
strip(s) == Kept(s, {i \in DOMAIN s : ~IsSpace(s[i])})

\* str.replace(old, new) for one-character old and new
replace(s, old, new) == [i \in DOMAIN s |-> IF s[i] = old THEN new ELSE s[i]]

\* `sub in s` on strings
Contains(s, sub) ==
    \E i \in 0 .. (Len(s) - Len(sub)) : SubSeq(s, i + 1, i + Len(sub)) = sub

FirstOr(stop, otherwise) == IF stop = {} THEN otherwise ELSE Min(stop)

\* the length of the longest prefix of s whose characters all satisfy Cls
PrefixLen(s, Cls(_)) == FirstOr({i \in DOMAIN s : ~Cls(s[i])}, Len(s) + 1) - 1

Positions(s, c) == {i \in DOMAIN s : s[i] = c}

TheOne(S) == CHOOSE x \in S : TRUE

\* Python's None
None == <<"<None>">>

(***************************************************************************)
(* common.choose_string                                                    *)
(***************************************************************************)
normalize(s) == replace(replace(lower(strip(s)), " ", "-"), "_", "-")

NoSuchOptionError(entered, available) ==
    [raised |-> "NoSuchOptionError", index |-> -1, entered_option |-> entered,
     matching_options |-> {}, available_options |-> available]

AmbiguousOptionError(entered, matching, available) ==
    [raised |-> "AmbiguousOptionError", index |-> -1, entered_option |-> entered,
     matching_options |-> matching, available_options |-> available]

Returned(ii) ==
    [raised |-> "", index |-> ii, entered_option |-> <<>>,
     matching_options |-> {}, available_options |-> <<>>]

Scan(exact, matching_indices, matching_values) ==
    [exact |-> exact, matching_indices |-> matching_indices,
     matching_values |-> matching_values]

\* the loop over expanded_options and their choices (lines 93-104), at group
\* ii (0-based) and choice jj (1-based) of it, with the matches collected so
\* far; sel is the normalized selection
RECURSIVE ScanChoices(_, _, _, _, _)
\* ScanChoice without the return of line 97: an exact match counts as one
\* more partial match
ScanChoice_NoExactMatch(expanded_options, sel, ii, jj, found, choice) ==
    IF Contains(choice, sel) THEN
        ScanChoices(expanded_options, sel, ii, jj + 1,
                    Scan(-1, found.matching_indices \cup {ii},
                         found.matching_values \cup {choice}))
    ELSE ScanChoices(expanded_options, sel, ii, jj + 1, found)

\* lines 95-104 for one choice, already normalized
ScanChoice(expanded_options, sel, ii, jj, found, choice) ==
    IF choice = sel THEN Scan(ii, found.matching_indices, found.matching_values)
    ELSE IF Contains(choice, sel) THEN
        ScanChoices(expanded_options, sel, ii, jj + 1,
                    Scan(-1, found.matching_indices \cup {ii},
                         found.matching_values \cup {choice}))
    ELSE ScanChoices(expanded_options, sel, ii, jj + 1, found)

ScanChoices(expanded_options, sel, ii, jj, found) ==
    IF ii >= Len(expanded_options) THEN found
    ELSE IF jj > Len(expanded_options[ii + 1]) THEN
        ScanChoices(expanded_options, sel, ii + 1, 1, found)
    ELSE ScanChoice(expanded_options, sel, ii, jj, found,
                    normalize(expanded_options[ii + 1][jj]))

FirstNames(expanded_options) ==
    [i \in DOMAIN expanded_options |-> expanded_options[i][1]]

\* ChooseOutcome counting the matching values where line 111 counts the
\* matching indices
ChooseOutcome_ByValues(expanded_options, sel, scan) ==
    IF scan.exact >= 0 THEN Returned(scan.exact)
    ELSE IF scan.matching_indices = {} THEN
        NoSuchOptionError(sel, FirstNames(expanded_options))
    ELSE IF Cardinality(scan.matching_values) = 1 THEN
        Returned(TheOne(scan.matching_indices))
    ELSE AmbiguousOptionError(sel, scan.matching_values,
                              FirstNames(expanded_options))

\* lines 106-119: the outcome of the scan.  matching_options is
\* list(matching_values), a list in the arbitrary order of a set: kept a set
ChooseOutcome(expanded_options, sel, scan) ==
    IF scan.exact >= 0 THEN Returned(scan.exact)
    ELSE IF scan.matching_indices = {} THEN
        NoSuchOptionError(sel, FirstNames(expanded_options))
    ELSE IF Cardinality(scan.matching_indices) = 1 THEN
        Returned(TheOne(scan.matching_indices))
    ELSE AmbiguousOptionError(sel, scan.matching_values,
                              FirstNames(expanded_options))

ChooseNormalized(expanded_options, sel) ==
    ChooseOutcome(expanded_options, sel,
                  ScanChoices(expanded_options, sel, 0, 1, Scan(-1, {}, {})))

choose_string(opts, sel) == ChooseNormalized(opts, normalize(sel))

(***************************************************************************)
(* Type descriptors and typed values.                                      *)
(***************************************************************************)
StrType == [kind |-> "str", args |-> <<>>]

AnyType == [kind |-> "Any", args |-> <<>>]

BoolType == [kind |-> "bool", args |-> <<>>]

IntType == [kind |-> "int", args |-> <<>>]

FloatType == [kind |-> "float", args |-> <<>>]

NoneType == [kind |-> "NoneType", args |-> <<>>]

\* Literal[args...], the args being strings
LiteralType(opts) == [kind |-> "Literal", args |-> opts]

\* Union[args...] or `a | b` (types.UnionType is mapped to Union)
UnionType(ts) == [kind |-> "Union", args |-> ts]

\* a type parse_value has no branch for, such as list[str]
ListType == [kind |-> "list", args |-> <<>>]

StrValue(s) == [t |-> "str", v |-> s]

BoolValue(b) == [t |-> "bool", v |-> b]

IntValue(n) == [t |-> "int", v |-> n]

\* a float: mantissa * 10^exponent, or "inf", "-inf", "nan"
FloatValue(m, e) == [t |-> "float", v |-> <<m, e>>]

FloatSpecial(name) == [t |-> "floatspecial", v |-> name]

NoneValue == [t |-> "None", v |-> <<>>]

TupleValue(items) == [t |-> "tuple", v |-> items]

(***************************************************************************)
(* ArgumentError and its message.  A message keeps the text of the         *)
(* f-string, the string it quotes between the first pair of back-ticks,    *)
(* and the list it ends with.                                              *)
(***************************************************************************)
Message(text, quoted, listed, matching) ==
    [text |-> text, quoted |-> quoted, listed |-> listed, matching |-> matching]

NoMessage == Message("", <<>>, <<>>, {})

Return(v) == [raised |-> "", value |-> v, message |-> NoMessage]

ArgumentError(m) == [raised |-> "ArgumentError", value |-> NoneValue, message |-> m]

TypeError(m) == [raised |-> "TypeError", value |-> NoneValue, message |-> m]

(***************************************************************************)
(* _parse_literal, _parse_bool, _parse_int, _parse_float, parse_value      *)
(***************************************************************************)
Singletons(opts) == [i \in DOMAIN opts |-> <<opts[i]>>]

\* lines 133-148: what _parse_literal makes of choose_string's outcome sel
LiteralOutcome(raw, opts, sel) ==
    IF sel.raised = "NoSuchOptionError" THEN
        ArgumentError(Message("is not valid here. Please provide one of",
                              raw, opts, {}))
    ELSE IF sel.raised = "AmbiguousOptionError" THEN
        ArgumentError(Message("is ambiguous here. It could refer to either of",
                              raw, <<>>, sel.matching_options))
    ELSE Return(StrValue(opts[sel.index + 1]))

_parse_literal(raw, t) ==
    LiteralOutcome(raw, t.args, choose_string(Singletons(t.args), raw))

TrueWords == {<<"t", "r", "u", "e">>, <<"t">>, <<"y", "e", "s">>, <<"y">>, <<"1">>}

FalseWords == {<<"f", "a", "l", "s", "e">>, <<"f">>, <<"n", "o">>, <<"n">>, <<"0">>}

BoolOf(low) ==
    IF low \in TrueWords THEN Return(BoolValue(TRUE))
    ELSE IF low \in FalseWords THEN Return(BoolValue(FALSE))
    ELSE ArgumentError(Message("is not a valid boolean value. Use true or false",
                               low, <<>>, {}))

\* raw = raw.lower(), then the two tests and the raise, all on the new raw
_parse_bool(raw) == BoolOf(lower(raw))

\* a digit, then digits each after at most one underscore: the digits of an
\* int or float literal
IsDigitPart(s) ==
    /\ s # <<>>
    /\ \A i \in DOMAIN s : IsDigit(s[i]) \/ s[i] = "_"
    /\ IsDigit(s[1]) /\ IsDigit(s[Len(s)])
    /\ \A i \in 1 .. (Len(s) - 1) : ~(s[i] = "_" /\ s[i + 1] = "_")

RECURSIVE DigitsValue(_)
DigitsValue(s) ==
    IF s = <<>> THEN 0
    ELSE IF s[Len(s)] = "_" THEN DigitsValue(Take(s, Len(s) - 1))
    ELSE 10 * DigitsValue(Take(s, Len(s) - 1)) + DigitValue(s[Len(s)])

HasSign(s) == s # <<>> /\ s[1] \in {"+", "-"}

Unsigned(s) == IF HasSign(s) THEN Tail(s) ELSE s

Sign(s) == IF s # <<>> /\ s[1] = "-" THEN -1 ELSE 1

IntOf(raw, s) ==
    IF IsDigitPart(Unsigned(s)) THEN
        Return(IntValue(Sign(s) * DigitsValue(Unsigned(s))))
    ELSE ArgumentError(Message("is not a valid integer number", raw, <<>>, {}))

\* int(raw): surrounding whitespace, a sign, decimal digits
_parse_int(raw) == IntOf(raw, strip(raw))

\* the text before the first "e" of a lowercased float literal, and after it
MantissaOf(u) ==
    IF Positions(u, "e") = {} THEN u ELSE Take(u, Min(Positions(u, "e")) - 1)

ExponentOf(u) ==
    IF Positions(u, "e") = {} THEN <<>> ELSE Drop(u, Min(Positions(u, "e")))

FractionOf(m) ==
    IF Positions(m, ".") = {} THEN <<>> ELSE Drop(m, Min(Positions(m, ".")))

\* digits, digits "." [digits], or "." digits
IsMantissa(m) ==
    IF Positions(m, ".") = {} THEN IsDigitPart(m)
    ELSE /\ Cardinality(Positions(m, ".")) = 1
         /\ \/ /\ IsDigitPart(Take(m, TheOne(Positions(m, ".")) - 1))
               /\ FractionOf(m) = <<>> \/ IsDigitPart(FractionOf(m))
            \/ /\ m[1] = "."
               /\ IsDigitPart(FractionOf(m))

RECURSIVE CountDigits(_)
CountDigits(s) ==
    IF s = <<>> THEN 0
    ELSE (IF IsDigit(s[1]) THEN 1 ELSE 0) + CountDigits(Tail(s))

RECURSIVE NormalFloat(_, _)
NormalFloat(m, e) ==
    IF m = 0 THEN FloatValue(0, 0)
    ELSE IF m % 10 = 0 THEN NormalFloat(m \div 10, e + 1)
    ELSE FloatValue(m, e)

SpecialFloats == {<<"i", "n", "f">>, <<"i", "n", "f", "i", "n", "i", "t", "y">>,
                  <<"n", "a", "n">>}

\* [digits][.digits][e[sign]digits], at least one digit in the mantissa
IsNumber(u) ==
    /\ IsMantissa(MantissaOf(u))
    /\ Positions(u, "e") # {} => IsDigitPart(Unsigned(ExponentOf(u)))

NumberValue(sign, m, x) ==
    NormalFloat(sign * DigitsValue(SelectSeq(m, IsDigit)),
                Sign(x) * DigitsValue(Unsigned(x)) - CountDigits(FractionOf(m)))

\* float(s) of a stripped s whose lowercased, unsigned text is u
FloatOf(raw, s, u) ==
    IF u \in SpecialFloats THEN
        Return(FloatSpecial(IF u[1] = "n" THEN "nan"
                            ELSE IF Sign(s) = -1 THEN "-inf" ELSE "inf"))
    ELSE IF IsNumber(u) THEN
        Return(NumberValue(Sign(s), MantissaOf(u), ExponentOf(u)))
    ELSE ArgumentError(Message("is not a valid number", raw, <<>>, {}))

\* float(raw): surrounding whitespace, a sign, then inf, infinity, nan or a
\* decimal number with an optional exponent
_parse_float(raw) == FloatOf(raw, strip(raw), lower(Unsigned(strip(raw))))

\* parse_value on a type that is no Union (lines 185-198 and 213)
ParseMember(val, t) ==
    IF t.kind \in {"str", "Any"} THEN Return(StrValue(val))
    ELSE IF t.kind = "Literal" THEN _parse_literal(val, t)
    ELSE IF t.kind = "bool" THEN _parse_bool(val)
    ELSE IF t.kind = "int" THEN _parse_int(val)
    ELSE IF t.kind = "float" THEN _parse_float(val)
    ELSE TypeError(Message("is not a supported type", <<>>, <<t>>, {}))

\* ParseUnion going through the members from the last to the first
RECURSIVE ParseUnion_Backwards(_, _, _)
ParseUnion_Backwards(val, t, i) ==
    IF i > Len(t.args) THEN
        ArgumentError(Message("is not a valid value for", val, t.args, {}))
    ELSE IF t.args[Len(t.args) + 1 - i].kind = "NoneType" THEN
        ParseUnion_Backwards(val, t, i + 1)
    ELSE LET r == ParseMember(val, t.args[Len(t.args) + 1 - i])
         IN  IF r.raised = "ArgumentError" THEN ParseUnion_Backwards(val, t, i + 1)
             ELSE r

\* the loop over get_args(typ) of a Union, from member i on.  typing flattens
\* a Union of Unions, so that a member is never a Union and the recursive
\* call parse_value(value, option) takes a branch of ParseMember
RECURSIVE ParseUnion(_, _, _)
ParseUnion(val, t, i) ==
    IF i > Len(t.args) THEN
        ArgumentError(Message("is not a valid value for", val, t.args, {}))
    ELSE IF t.args[i].kind = "NoneType" THEN ParseUnion(val, t, i + 1)
    ELSE LET r == ParseMember(val, t.args[i])
         IN  IF r.raised = "ArgumentError" THEN ParseUnion(val, t, i + 1)
             ELSE r

parse_value(val, t) ==
    IF t.kind = "Union" THEN ParseUnion(val, t, 1) ELSE ParseMember(val, t)

(***************************************************************************)
(* Parameter                                                               *)
(***************************************************************************)
NO_DEFAULT == [t |-> "NO_DEFAULT", v |-> <<>>]

Parameter(name, shorthand, type, is_flag, is_variadic, default_value) ==
    [name |-> name, shorthand |-> shorthand, type |-> type, is_flag |-> is_flag,
     is_variadic |-> is_variadic, default_value |-> default_value]

(***************************************************************************)
(* PATTERN_LONG_FLAG and PATTERN_SHORT_FLAG, as fullmatch applies them.    *)
(* The name class holds no "=", so group 1 is the longest run of name      *)
(* characters after the dashes; what follows is nothing, or "=" and any    *)
(* characters but a line break.                                            *)
(***************************************************************************)
NoMatch == [matched |-> FALSE, group1 |-> <<>>, group3 |-> None]

Matched(group1, group3) == [matched |-> TRUE, group1 |-> group1, group3 |-> group3]

\* the name and what follows it
NameAndTail(name, tail) ==
    IF name = <<>> THEN NoMatch
    ELSE IF tail = <<>> THEN Matched(name, None)
    ELSE IF tail[1] = "=" /\ \A i \in 2 .. Len(tail) : IsDot(tail[i]) THEN
        Matched(name, Tail(tail))
    ELSE NoMatch

AfterDashes(after, n) == NameAndTail(Take(after, n), Drop(after, n))

FlagMatch(s, dashes, NameChar(_)) ==
    IF Len(s) < dashes \/ \E i \in 1 .. dashes : s[i] # "-" THEN NoMatch
    ELSE AfterDashes(Drop(s, dashes), PrefixLen(Drop(s, dashes), NameChar))

IsLongNameChar(c) == IsLetter(c) \/ IsDigit(c) \/ c = "-"

IsShortNameChar(c) == IsLetter(c) \/ c = "-"

PATTERN_LONG_FLAG(s) == FlagMatch(s, 2, IsLongNameChar)

PATTERN_SHORT_FLAG(s) == FlagMatch(s, 1, IsShortNameChar)

EndOfFlags == <<"-", "-">>

(***************************************************************************)
(* Parser.__init__: the lookup tables built from the parameters.  A later  *)
(* parameter replaces an earlier one under the same key.                   *)
(***************************************************************************)
LastUnder(ps, keyed, Key(_)) ==
    [k \in {Key(ps[i]) : i \in keyed} |-> ps[Max({i \in keyed : Key(ps[i]) = k})]]

NameOf(p) == p.name

ShorthandOf(p) == p.shorthand

parameters_by_name(ps) ==
    LastUnder(ps, {i \in DOMAIN ps : ps[i].is_flag}, NameOf)

parameters_by_shorthand(ps) ==
    LastUnder(ps, {i \in DOMAIN ps : ps[i].is_flag /\ ps[i].shorthand # None},
              ShorthandOf)

IsPositional(p) == ~p.is_flag

positional_parameters(ps) == SelectSeq(ps, IsPositional)

\* the Parser object as one record
NewParser(ps) ==
    [parameters |-> ps,
     assigned_parameters |-> <<>>,
     current_parameter |-> None,
     allow_flags |-> TRUE,
     rest |-> <<>>,
     errors |-> <<>>,
     next_positional_parameter_index |-> 0]

(***************************************************************************)
(* self.assigned_parameters: a dict, which keeps the order in which its    *)
(* keys were first inserted.                                               *)
(***************************************************************************)
Keys(d) == {d[i].key : i \in DOMAIN d}

Get(d, k) == d[CHOOSE i \in DOMAIN d : d[i].key = k].values

\* d.setdefault(k, []).append(v)
SetDefaultAppend(d, k, v) ==
    IF k \in Keys(d) THEN
        [i \in DOMAIN d |->
            IF d[i].key = k THEN [d[i] EXCEPT !.values = Append(@, v)] ELSE d[i]]
    ELSE Append(d, [key |-> k, values |-> <<v>>])

\* d.pop(k), the key being present
Pop(d, k) == SelectSeq(d, LAMBDA e : e.key # k)

(***************************************************************************)
(* The strings of self.errors.                                             *)
(***************************************************************************)
ErrorText(text, quoted, cause) == [text |-> text, quoted |-> quoted, cause |-> cause]

MissingValueFor(name) == ErrorText("Missing value for", name, <<>>)

TooManyValuesFor(name) == ErrorText("Too many values for", name, <<>>)

InvalidValueFor(name, message) == ErrorText("Invalid value for", name, <<message>>)

UnexpectedValue(v) == ErrorText("Unexpected value", v, <<>>)

(***************************************************************************)
(* Parser._feed_flags                                                      *)
(***************************************************************************)
flag_by_name_dict(self, use_shorthands) ==
    IF use_shorthands THEN parameters_by_shorthand(self.parameters)
    ELSE parameters_by_name(self.parameters)

\* lines 273-278
IsBoolParameter(dict, flag) ==
    IF flag \in DOMAIN dict THEN dict[flag].type.kind = "bool" ELSE FALSE

\* FeedBoolFlag taking the branch of line 281 for every flag
FeedBoolFlag_MissingValue(self, bool_flag, use_shorthands) ==
    [self EXCEPT !.errors = Append(@, MissingValueFor(<<"-">> \o bool_flag))]

\* one turn of the loop over flag_names[:-1]
FeedBoolFlag(self, bool_flag, use_shorthands) ==
    IF ~IsBoolParameter(flag_by_name_dict(self, use_shorthands), bool_flag) THEN
        [self EXCEPT !.errors = Append(@, MissingValueFor(<<"-">> \o bool_flag))]
    ELSE
        [self EXCEPT !.assigned_parameters =
            SetDefaultAppend(@, bool_flag, <<"t", "r", "u", "e">>)]

\* FeedBoolFlags leaving the loop at the first flag that is no boolean
RECURSIVE FeedBoolFlags_Aborting(_, _, _)
FeedBoolFlags_Aborting(self, names, use_shorthands) ==
    IF names = <<>> THEN self
    ELSE IF ~IsBoolParameter(flag_by_name_dict(self, use_shorthands), Head(names))
    THEN FeedBoolFlag(self, Head(names), use_shorthands)
    ELSE FeedBoolFlags_Aborting(FeedBoolFlag(self, Head(names), use_shorthands),
                                Tail(names), use_shorthands)

RECURSIVE FeedBoolFlags(_, _, _)
FeedBoolFlags(self, names, use_shorthands) ==
    IF names = <<>> THEN self
    ELSE FeedBoolFlags(FeedBoolFlag(self, Head(names), use_shorthands),
                       Tail(names), use_shorthands)

\* FeedLastFlag without the branch of lines 293-303: a boolean flag awaits
\* a value like any other
FeedLastFlag_AlwaysAwaits(self, last_flag, flag_value, use_shorthands) ==
    IF flag_value # None THEN
        [self EXCEPT !.assigned_parameters =
            SetDefaultAppend(@, last_flag, flag_value)]
    ELSE [self EXCEPT !.current_parameter = last_flag]

\* lines 286-308: the last flag of the token
FeedLastFlag(self, last_flag, flag_value, use_shorthands) ==
    IF flag_value # None THEN
        [self EXCEPT !.assigned_parameters =
            SetDefaultAppend(@, last_flag, flag_value)]
    ELSE IF IsBoolParameter(flag_by_name_dict(self, use_shorthands), last_flag) THEN
        [self EXCEPT !.assigned_parameters =
            SetDefaultAppend(@, last_flag, <<"t", "r", "u", "e">>)]
    ELSE [self EXCEPT !.current_parameter = last_flag]

_feed_flags(self, flag_names, flag_value, use_shorthands) ==
    FeedLastFlag(
        FeedBoolFlags(self, Take(flag_names, Len(flag_names) - 1), use_shorthands),
        flag_names[Len(flag_names)], flag_value, use_shorthands)

(***************************************************************************)
(* Parser.feed_one                                                         *)
(***************************************************************************)
\* list(match.group(1)): the characters of the cluster, each a flag name
Letters(s) == [i \in DOMAIN s |-> <<s[i]>>]

\* AssignPositional moving the cursor on past a variadic parameter as well
AssignPositional_Advancing(self, param, val) ==
    [self EXCEPT
        !.assigned_parameters = SetDefaultAppend(@, param.name, val),
        !.next_positional_parameter_index = @ + 1]

AssignPositional(self, param, val) ==
    [self EXCEPT
        !.assigned_parameters = SetDefaultAppend(@, param.name, val),
        !.next_positional_parameter_index =
            IF param.is_variadic THEN @ ELSE @ + 1]

\* FeedPositional moving the cursor on after every value it assigns
FeedPositional_OneEach(self, val) ==
    IF self.next_positional_parameter_index
            >= Len(positional_parameters(self.parameters))
    THEN [self EXCEPT !.rest = Append(@, val)]
    ELSE [self EXCEPT
             !.assigned_parameters =
                 SetDefaultAppend(
                     @,
                     positional_parameters(self.parameters)[
                         self.next_positional_parameter_index + 1].name,
                     val),
             !.next_positional_parameter_index = @ + 1]

\* lines 349-362
FeedPositional(self, val) ==
    IF self.next_positional_parameter_index
            >= Len(positional_parameters(self.parameters))
    THEN [self EXCEPT !.rest = Append(@, val)]
    ELSE AssignPositional(
             self,
             positional_parameters(self.parameters)[
                 self.next_positional_parameter_index + 1],
             val)

FeedLong(self, match) == _feed_flags(self, <<match.group1>>, match.group3, FALSE)

FeedShort(self, match) ==
    _feed_flags(self, Letters(match.group1), match.group3, TRUE)

\* Branch matching the flag patterns whether or not flags are still allowed
Branch_FlagsAlways(self, val) ==
    IF self.current_parameter # None THEN "value"
    ELSE IF self.allow_flags /\ val = EndOfFlags THEN "end-of-flags"
    ELSE IF PATTERN_LONG_FLAG(val).matched THEN "long"
    ELSE IF PATTERN_SHORT_FLAG(val).matched THEN "short"
    ELSE "positional"

\* the branch of feed_one a value takes: the conditions of lines 316, 323,
\* 325, 331 and 341, in their order
Branch(self, val) ==
    IF self.current_parameter # None THEN "value"
    ELSE IF self.allow_flags /\ val = EndOfFlags THEN "end-of-flags"
    ELSE IF self.allow_flags /\ PATTERN_LONG_FLAG(val).matched THEN "long"
    ELSE IF self.allow_flags /\ PATTERN_SHORT_FLAG(val).matched THEN "short"
    ELSE "positional"

\* FeedValue reading the awaited value as the end-of-flags marker as well
FeedValue_EndingFlags(self, val) ==
    [self EXCEPT
        !.assigned_parameters = SetDefaultAppend(@, self.current_parameter, val),
        !.current_parameter = None,
        !.allow_flags = IF val = EndOfFlags THEN FALSE ELSE @]

\* lines 316-320
FeedValue(self, val) ==
    [self EXCEPT
        !.assigned_parameters = SetDefaultAppend(@, self.current_parameter, val),
        !.current_parameter = None]

FeedBranch(self, val, branch) ==
    IF branch = "value" THEN FeedValue(self, val)
    ELSE IF branch = "end-of-flags" THEN [self EXCEPT !.allow_flags = FALSE]
    ELSE IF branch = "long" THEN FeedLong(self, PATTERN_LONG_FLAG(val))
    ELSE IF branch = "short" THEN FeedShort(self, PATTERN_SHORT_FLAG(val))
    ELSE FeedPositional(self, val)

feed_one(self, val) == FeedBranch(self, val, Branch(self, val))

RECURSIVE feed_many(_, _)
feed_many(self, values) ==
    IF values = <<>> THEN self
    ELSE feed_many(feed_one(self, Head(values)), Tail(values))

(***************************************************************************)
(* Parser.finish                                                           *)
(***************************************************************************)
\* the value of a parameter finish left out of its result
Unbound == [t |-> "<unbound>", v |-> <<>>]

Values(values, errs, raised) == [values |-> values, errors |-> errs, raised |-> raised]

\* the loop over raw_assigned (lines 415-422), from raw value i on
RECURSIVE ParseValues(_, _, _, _, _)
\* lines 416-422 for one raw value, r being what parse_value made of it
ParsedValue(param, raw_assigned, i, values, errs, r) ==
    IF r.raised = "ArgumentError" THEN
        ParseValues(param, raw_assigned, i + 1, values,
                    Append(errs, InvalidValueFor(param.name, r.message)))
    ELSE IF r.raised # "" THEN Values(values, errs, r.raised)
    ELSE ParseValues(param, raw_assigned, i + 1, Append(values, r.value), errs)

ParseValues(param, raw_assigned, i, values, errs) ==
    IF i > Len(raw_assigned) THEN Values(values, errs, "")
    ELSE ParsedValue(param, raw_assigned, i, values, errs,
                     parse_value(raw_assigned[i], param.type))

\* AssignValues giving a parameter none of whose values could be parsed
\* its default
AssignValues_DefaultOnFailure(st, i, param, done) ==
    IF done.raised # "" THEN
        [st EXCEPT !.errors = done.errors, !.raised = done.raised]
    ELSE
        [st EXCEPT !.errors = done.errors,
                   !.result[i] =
                       IF param.is_variadic THEN TupleValue(done.values)
                       ELSE IF done.values # <<>> THEN done.values[1]
                       ELSE param.default_value]

\* lines 424-428, done being the outcome of the loop over raw_assigned
AssignValues(st, i, param, done) ==
    IF done.raised # "" THEN
        [st EXCEPT !.errors = done.errors, !.raised = done.raised]
    ELSE
        [st EXCEPT !.errors = done.errors,
                   !.result[i] =
                       IF param.is_variadic THEN TupleValue(done.values)
                       ELSE IF done.values # <<>> THEN done.values[1]
                       ELSE @]

\* FinishAssigned giving a parameter with too many values its default
FinishAssigned_Defaulting(st, i, param, raw_assigned) ==
    IF ~param.is_variadic /\ Len(raw_assigned) > 1 THEN
        [st EXCEPT !.errors = Append(@, TooManyValuesFor(param.name)),
                   !.result[i] = param.default_value]
    ELSE AssignValues(st, i, param,
                      ParseValues(param, raw_assigned, 1, <<>>, st.errors))

\* lines 407-428, raw_assigned having been popped
FinishAssigned(st, i, param, raw_assigned) ==
    IF ~param.is_variadic /\ Len(raw_assigned) > 1 THEN
        [st EXCEPT !.errors = Append(@, TooManyValuesFor(param.name))]
    ELSE AssignValues(st, i, param,
                      ParseValues(param, raw_assigned, 1, <<>>, st.errors))

\* FinishParameter taking a default of None for no default
FinishParameter_NullAsAbsent(st, i, param, allow_missing) ==
    IF param.name \notin Keys(st.assigned_parameters) THEN
        IF param.default_value \notin {NO_DEFAULT, NoneValue} THEN
            [st EXCEPT !.result[i] = param.default_value]
        ELSE IF allow_missing THEN st
        ELSE [st EXCEPT !.errors = Append(@, MissingValueFor(param.name))]
    ELSE
        FinishAssigned(
            [st EXCEPT !.assigned_parameters = Pop(@, param.name)],
            i, param, Get(st.assigned_parameters, param.name))

\* one turn of the loop over self.parameters (lines 389-428); st holds
\* self.assigned_parameters, self.errors, result and what was raised
FinishParameter(st, i, param, allow_missing) ==
    IF param.name \notin Keys(st.assigned_parameters) THEN
        IF param.default_value # NO_DEFAULT THEN
            [st EXCEPT !.result[i] = param.default_value]
        ELSE IF allow_missing THEN st
        ELSE [st EXCEPT !.errors = Append(@, MissingValueFor(param.name))]
    ELSE
        FinishAssigned(
            [st EXCEPT !.assigned_parameters = Pop(@, param.name)],
            i, param, Get(st.assigned_parameters, param.name))

RECURSIVE FinishParameters(_, _, _, _)
FinishParameters(st, ps, i, allow_missing) ==
    IF i > Len(ps) \/ st.raised # "" THEN st
    ELSE FinishParameters(FinishParameter(st, i, ps[i], allow_missing),
                          ps, i + 1, allow_missing)

\* lines 430-433: one error for every key left in self.assigned_parameters
UnexpectedValues(d) == [i \in DOMAIN d |-> UnexpectedValue(d[i].values[1])]

\* lines 381-384
MissingCurrent(self) ==
    IF self.current_parameter # None
    THEN Append(self.errors, MissingValueFor(self.current_parameter))
    ELSE self.errors

FinishState(self) ==
    [assigned_parameters |-> self.assigned_parameters,
     errors |-> MissingCurrent(self),
     result |-> [i \in DOMAIN self.parameters |-> Unbound],
     raised |-> ""]

\* lines 430-436, st being the outcome of the loop over self.parameters
Finished(self, st) ==
    [self |-> [self EXCEPT
                  !.current_parameter = None,
                  !.assigned_parameters = st.assigned_parameters,
                  !.errors = IF st.raised = ""
                             THEN st.errors \o UnexpectedValues(st.assigned_parameters)
                             ELSE st.errors],
     result |-> st.result,
     raised |-> st.raised]

\* finish: the parser it leaves, the dict it returns and what it raised
finish(self, allow_missing) ==
    Finished(self, FinishParameters(FinishState(self), self.parameters, 1,
                                    allow_missing))

(***************************************************************************)
(* The parameter lists and the values fed to the parser.                   *)
(***************************************************************************)
Long(name) == <<"-", "-">> \o name

LongEq(name, val) == Long(name) \o <<"=">> \o val

Short(letters) == <<"-">> \o letters

ShortEq(letters, val) == Short(letters) \o <<"=">> \o val

s_name == <<"n", "a", "m", "e">>

s_count == <<"c", "o", "u", "n", "t">>

s_dry_run == <<"d", "r", "y", "-", "r", "u", "n">>

s_verbose == <<"v", "e", "r", "b", "o", "s", "e">>

s_force == <<"f", "o", "r", "c", "e">>

s_src == <<"s", "r", "c">>

s_files == <<"f", "i", "l", "e", "s">>

s_foo == <<"f", "o", "o">>

s_true == <<"t", "r", "u", "e">>

s_false == <<"f", "a", "l", "s", "e">>

s_bar == <<"b", "a", "r">>

s_mode == <<"m", "o", "d", "e">>

s_fast == <<"f", "a", "s", "t">>

s_slow == <<"s", "l", "o", "w">>

\* def command(name: str, *, c__count: int = 1, dry_run: bool = False)
ParamsCount ==
    <<Parameter(s_name, None, StrType, FALSE, FALSE, NO_DEFAULT),
      Parameter(s_count, <<"c">>, IntType, TRUE, FALSE, IntValue(1)),
      Parameter(s_dry_run, None, BoolType, TRUE, FALSE, BoolValue(FALSE))>>

TokensCount ==
    {s_foo, <<"3">>, Short(<<"c">>), ShortEq(<<"c">>, <<"3">>), Long(s_count),
     LongEq(s_count, <<"3">>), Long(s_dry_run), LongEq(s_dry_run, s_false),
     EndOfFlags, LongEq(s_count, s_bar)}

\* def command(*, v__verbose: bool = False, f__force: bool, q__q: bool = False)
ParamsBool ==
    <<Parameter(s_verbose, <<"v">>, BoolType, TRUE, FALSE, BoolValue(FALSE)),
      Parameter(s_force, <<"f">>, BoolType, TRUE, FALSE, NO_DEFAULT),
      Parameter(<<"q">>, <<"q">>, BoolType, TRUE, FALSE, BoolValue(FALSE))>>

TokensBool ==
    {Short(<<"v">>), Short(<<"f">>), Short(<<"v", "f">>), Short(<<"f", "v">>),
     Short(<<"q">>), Long(s_verbose), Long(s_force), LongEq(s_force, s_false),
     <<"x">>, Short(<<"x", "v", "f">>)}

\* def command(src: str, *files: int, k__k: str | None = None)
ParamsVariadic ==
    <<Parameter(s_src, None, StrType, FALSE, FALSE, NO_DEFAULT),
      Parameter(s_files, None, IntType, FALSE, TRUE, NO_DEFAULT),
      Parameter(<<"k">>, <<"k">>, UnionType(<<StrType, NoneType>>), TRUE, FALSE,
                NoneValue)>>

TokensVariadic ==
    {<<"a">>, <<"1">>, <<"2">>, <<"x">>, EndOfFlags, Long(<<"k">>), Short(<<"k">>),
     LongEq(s_files, <<"7">>), LongEq(s_src, <<"b">>)}

\* def command(mode: Literal["fast", "slow"], *, y__y: bool | None)
ParamsMode ==
    <<Parameter(s_mode, None, LiteralType(<<s_fast, s_slow>>), FALSE, FALSE,
                NO_DEFAULT),
      Parameter(<<"y">>, <<"y">>, UnionType(<<BoolType, NoneType>>), TRUE, FALSE,
                NO_DEFAULT)>>

TokensMode == {s_fast, <<"s">>, <<"x">>, Long(<<"y">>)}

s_dst == <<"d", "s", "t">>

\* a list built from Parameter objects by hand, with a positional parameter
\* after the variadic one; no function signature gives it
ParamsLate ==
    <<Parameter(s_files, None, IntType, FALSE, TRUE, NO_DEFAULT),
      Parameter(s_dst, None, StrType, FALSE, FALSE, NO_DEFAULT)>>

TokensLate == {<<"1">>, <<"x">>, EndOfFlags}

ParameterLists == {ParamsCount, ParamsBool, ParamsVariadic, ParamsMode, ParamsLate}

TokensFor(ps) ==
    IF ps = ParamsCount THEN TokensCount
    ELSE IF ps = ParamsBool THEN TokensBool
    ELSE IF ps = ParamsVariadic THEN TokensVariadic
    ELSE IF ps = ParamsMode THEN TokensMode
    ELSE TokensLate

(***************************************************************************)
(* common.python_name_to_pretty and the dict of a menu's options.          *)
(***************************************************************************)
upper(s) ==
    [i \in DOMAIN s |->
        IF s[i] \in Range(LowerCase) THEN UpperCase[IndexOf(LowerCase, s[i])]
        ELSE s[i]]

\* str.title(): a letter after a letter is lowercased, any other letter
\* uppercased
title(s) ==
    [i \in DOMAIN s |->
        IF ~IsLetter(s[i]) THEN s[i]
        ELSE IF i > 1 /\ IsLetter(s[IF i > 1 THEN i - 1 ELSE 1])
             THEN lower(<<s[i]>>)[1]
        ELSE upper(<<s[i]>>)[1]]

python_name_to_pretty(name) ==
    title(replace(Kept(name, {i \in DOMAIN name : name[i] # "_"}), "_", " "))

\* d[k] = v on a dict kept as the sequence of its items in insertion order
SetItem(d, k, v) ==
    IF \E i \in DOMAIN d : d[i].key = k THEN
        [i \in DOMAIN d |-> IF d[i].key = k THEN [key |-> k, value |-> v] ELSE d[i]]
    ELSE Append(d, [key |-> k, value |-> v])

\* {label(x): x for x in values}
RECURSIVE DictOf(_, _, _)
DictOf(labels, values, d) ==
    IF values = <<>> THEN d
    ELSE DictOf(Tail(labels), Tail(values), SetItem(d, Head(labels), Head(values)))

(***************************************************************************)
(* ask_value_for_parameter, one answer of the user at a time.              *)
(***************************************************************************)
\* what the user does at a prompt: types a line, or picks a line of a menu
Typed(s) == [text |-> s, index |-> 0]

Picked(k) == [text |-> <<>>, index |-> k]

TypedReplies == {<<"y">>, <<" ", "N", "o", " ">>, <<"7">>, <<"x">>}

\* lines 460-462
IsOptional(t) ==
    IF t.kind = "Union" THEN
        Len(t.args) = 2 /\ \E i \in DOMAIN t.args : t.args[i].kind = "NoneType"
    ELSE FALSE

\* lines 451-453 and 460-462.  After line 462 type_key is the first argument
\* of the Union itself, which is never the bare Literal
type_key(t) ==
    IF IsOptional(t) THEN
        IF t.args[1].kind = "Literal" THEN "Literal[...]" ELSE t.args[1].kind
    ELSE t.kind

\* the branch of the loop (lines 467, 471, 481) a parameter takes
PromptKind(param) ==
    IF type_key(param.type) = "bool" THEN "yes/no"
    ELSE IF type_key(param.type) = "Literal" THEN "choice"
    ELSE "text"

\* lines 474-477
LiteralMenu(t) ==
    DictOf([i \in DOMAIN t.args |-> python_name_to_pretty(t.args[i])],
           [i \in DOMAIN t.args |-> StrValue(t.args[i])], <<>>)

RepliesFor(param) ==
    IF PromptKind(param) = "choice"
    THEN {Picked(k) : k \in DOMAIN LiteralMenu(param.type)}
    ELSE {Typed(r) : r \in TypedReplies}

\* what one prompt ends in: a value, one more prompt, or an exception
Answered(v) == [done |-> TRUE, value |-> v, raised |-> ""]

AskAgain == [done |-> FALSE, value |-> NoneValue, raised |-> ""]

AskRaised(name) == [done |-> FALSE, value |-> NoneValue, raised |-> name]

\* legacy.select_yes_no: the options of legacy.py lines 1038-1049, looked up
\* with the lowercased line (line 1080)
YesWords == {<<"y">>, <<"y", "e", "s">>, <<"1">>, <<"t">>, <<"t", "r", "u", "e">>}

NoWords == {<<"n">>, <<"n", "o">>, <<"0">>, <<"f">>, <<"f", "a", "l", "s", "e">>}

SelectYesNo(response) ==
    IF response \in YesWords THEN Answered(BoolValue(TRUE))
    ELSE IF response \in NoWords THEN Answered(BoolValue(FALSE))
    ELSE AskAgain

\* lines 483-486, r being what parse_value made of the line
TextAnswer(r) ==
    IF r.raised = "" THEN Answered(r.value)
    ELSE IF r.raised = "ArgumentError" THEN AskAgain
    ELSE AskRaised(r.raised)

\* one turn of the loop of ask_value_for_parameter (lines 465-486);
\* legacy.input strips the line (legacy.py line 990)
AskReply(param, reply) ==
    IF PromptKind(param) = "yes/no" THEN SelectYesNo(lower(strip(reply.text)))
    ELSE IF PromptKind(param) = "choice" THEN
        Answered(LiteralMenu(param.type)[reply.index].value)
    ELSE TextAnswer(parse_value(strip(reply.text), param.type))

(***************************************************************************)
(* parse_function_parameters after finish.                                 *)
(***************************************************************************)
\* set(params) - assignments.keys()
MissingParams(res) == {i \in DOMAIN res : res[i] = Unbound}

\* AfterFinish asking for the missing parameters before it looks at the
\* errors
AfterFinish_AskFirst(errs, res, inter) ==
    IF MissingParams(res) # {} /\ inter THEN "asking"
    ELSE IF errs # <<>> THEN "failed"
    ELSE IF MissingParams(res) # {} THEN "failed"
    ELSE "asking"

\* lines 514-533: where the function goes once finish has returned
AfterFinish(errs, res, inter) ==
    IF errs # <<>> THEN "failed"
    ELSE IF MissingParams(res) # {} /\ ~inter THEN "failed"
    ELSE "asking"

\* the name of the parameter in the signature, which line 114 keeps as
\* python_name: lines 70-83 read backwards, for a name that neither starts
\* nor ends with an underscore
python_name(param) ==
    (IF param.shorthand # None THEN param.shorthand \o <<"_", "_">> ELSE <<>>)
    \o replace(param.name, "-", "_")

NoArguments == [raised |-> "", by_position |-> <<>>, by_name |-> <<>>]

\* Argument passing a flag under its console name
Argument_ByConsoleName(param, val, out) ==
    IF val = Unbound THEN [out EXCEPT !.raised = "KeyError"]
    ELSE IF param.is_flag THEN
        [out EXCEPT !.by_name = SetItem(@, param.name, val)]
    ELSE [out EXCEPT !.by_position = Append(@, val)]

\* one turn of the loop of lines 547-553, val being assignments[param] or,
\* if param is no key of assignments, Unbound
Argument(param, val, out) ==
    IF val = Unbound THEN [out EXCEPT !.raised = "KeyError"]
    ELSE IF param.is_flag THEN
        [out EXCEPT !.by_name = SetItem(@, python_name(param), val)]
    ELSE [out EXCEPT !.by_position = Append(@, val)]

\* lines 543-556, from parameter i on
RECURSIVE Arguments(_, _, _, _)
Arguments(ps, res, i, out) ==
    IF i > Len(ps) \/ out.raised # "" THEN out
    ELSE Arguments(ps, res, i + 1, Argument(ps[i], res[i], out))

(***************************************************************************)
(* The state of the model.                                                 *)
(***************************************************************************)
\* the Parser object the variables hold
Self ==
    [parameters |-> parameters,
     assigned_parameters |-> assigned_parameters,
     current_parameter |-> current_parameter,
     allow_flags |-> allow_flags,
     rest |-> rest,
     errors |-> errors,
     next_positional_parameter_index |-> next_positional_parameter_index]

SetSelf(self) ==
    /\ parameters' = self.parameters
    /\ assigned_parameters' = self.assigned_parameters
    /\ current_parameter' = self.current_parameter
    /\ allow_flags' = self.allow_flags
    /\ rest' = self.rest
    /\ errors' = self.errors
    /\ next_positional_parameter_index' = self.next_positional_parameter_index

NotCalled ==
    [raised |-> "<not called>", index |-> -1, entered_option |-> <<>>,
     matching_options |-> {}, available_options |-> <<>>]

NotParsed == [raised |-> "<not called>", value |-> NoneValue, message |-> NoMessage]

\* nothing was returned yet
NotReturned == [raised |-> "<not returned>", by_position |-> <<>>, by_name |-> <<>>]

ParserInit(ps) ==
    /\ parameters = ps
    /\ assigned_parameters = <<>>
    /\ current_parameter = None
    /\ allow_flags = TRUE
    /\ rest = <<>>
    /\ errors = <<>>
    /\ next_positional_parameter_index = 0
    /\ allow_missing_arguments = FALSE
    /\ result = <<>>
    /\ fed = <<>>
    /\ steps = <<>>
    /\ missing_params = {}
    /\ asking = 0
    /\ asked = <<>>
    /\ prompts = [i \in DOMAIN ps |-> None]
    /\ returned = NotReturned

ChooseIdle == options = <<>> /\ selection = <<>> /\ chosen = NotCalled

ValueIdle == value = <<>> /\ typ = StrType /\ parsed = NotParsed

NotSelected == [raised |-> "<not called>", name |-> <<>>, rest |-> <<>>]

NameIdle ==
    raw_args = <<>> /\ interactive = FALSE /\ selected = NotSelected /\ menu = <<>>

\* a command registered without parameters=...
NoUserParameters == user_provided_parameters = <<>>

(***************************************************************************)
(* Spec: parse_function_parameters as App.run calls it: Parser(params),    *)
(* feed_many(raw_args), finish(allow_missing_arguments=interactive), the   *)
(* errors surfaced, the missing parameters asked for, and then the call of *)
(* the command.                                                            *)
(***************************************************************************)
Init ==
    /\ \E ps \in ParameterLists : ParserInit(ps)
    /\ pc = "feeding"
    /\ ChooseIdle
    /\ ValueIdle
    /\ NameIdle
    /\ NoUserParameters

\* one turn of feed_many's loop
FeedOne ==
    /\ pc = "feeding"
    /\ Len(fed) < MaxTokens
    /\ \E val \in TokensFor(parameters) :
        /\ SetSelf(feed_one(Self, val))
        /\ fed' = Append(fed, val)
        /\ steps' = Append(steps, Branch(Self, val))
    /\ UNCHANGED <<pc, allow_missing_arguments, result>>
    /\ UNCHANGED <<chooseVars, valueVars, askVars, nameVars, appVars>>

Finish ==
    /\ pc = "feeding"
    /\ \E allow \in BOOLEAN :
        /\ SetSelf(finish(Self, allow).self)
        /\ allow_missing_arguments' = allow
        /\ result' = finish(Self, allow).result
        /\ pc' = IF finish(Self, allow).raised = "" THEN "finished" ELSE "raised"
    /\ UNCHANGED <<fed, steps>>
    /\ UNCHANGED <<chooseVars, valueVars, askVars, nameVars, appVars>>

parserFields == <<parameters, assigned_parameters, current_parameter, allow_flags,
                  rest, errors, next_positional_parameter_index>>

\* argument_parser.py lines 514-533: raise on any error, and on a missing
\* parameter that cannot be asked for
Surface ==
    /\ pc = "finished"
    /\ pc' = AfterFinish(errors, result, allow_missing_arguments)
    /\ missing_params' =
           IF AfterFinish(errors, result, allow_missing_arguments) = "asking"
           THEN MissingParams(result) ELSE {}
    /\ UNCHANGED <<parserFields, allow_missing_arguments, result, fed, steps,
                   asking, asked>>
    /\ UNCHANGED <<chooseVars, valueVars, nameVars, appVars>>

\* the missing parameters no prompt has given a value yet
StillMissing == {i \in missing_params : result[i] = Unbound}

\* AskFor going through all of params, not only the missing ones
AskFor_EveryParameter(i) ==
    /\ pc = "asking"
    /\ asking = 0
    /\ i \in DOMAIN parameters
    /\ i \notin Range(asked)
    /\ asking' = i
    /\ asked' = Append(asked, i)
    /\ UNCHANGED <<parserFields, pc, allow_missing_arguments, result, fed, steps,
                   missing_params>>
    /\ UNCHANGED <<chooseVars, valueVars, nameVars, appVars>>

\* the loop of line 536 takes the next element of the set missing_params,
\* in the order of the set, which is no order of the program's choosing:
\* Parameter hashes by id (line 53).  AskFor(i): the next element is i
AskFor(i) ==
    /\ pc = "asking"
    /\ asking = 0
    /\ i \in StillMissing
    /\ asking' = i
    /\ asked' = Append(asked, i)
    /\ UNCHANGED <<parserFields, pc, allow_missing_arguments, result, fed, steps,
                   missing_params>>
    /\ UNCHANGED <<chooseVars, valueVars, nameVars, appVars>>

Ask == \E i \in DOMAIN parameters : AskFor(i)

\* the user answers the prompt: ask_value_for_parameter returns the value,
\* or shows the prompt once more
Answer ==
    /\ pc = "asking"
    /\ asking # 0
    /\ \E reply \in RepliesFor(parameters[asking]) :
        \/ /\ AskReply(parameters[asking], reply).done
           /\ result' = [result EXCEPT
                             ![asking] = AskReply(parameters[asking], reply).value]
           /\ asking' = 0
           /\ UNCHANGED <<asked, pc>>
        \/ /\ ~AskReply(parameters[asking], reply).done
           /\ AskReply(parameters[asking], reply).raised = ""
           /\ Len(asked) < MaxPrompts
           /\ asked' = Append(asked, asking)
           /\ UNCHANGED <<result, asking, pc>>
        \/ /\ AskReply(parameters[asking], reply).raised # ""
           /\ pc' = "raised"
           /\ UNCHANGED <<result, asking, asked>>
    /\ UNCHANGED <<parserFields, allow_missing_arguments, fed, steps, missing_params>>
    /\ UNCHANGED <<chooseVars, valueVars, nameVars, appVars>>

\* Interrupt showing the cancelled prompt once more before the pass ends
Interrupt_AskedAgain ==
    /\ pc = "asking"
    /\ asking # 0
    /\ pc' = "cancelled"
    /\ asked' = Append(asked, asking)
    /\ UNCHANGED <<parserFields, allow_missing_arguments, result, fed, steps,
                   missing_params, asking>>
    /\ UNCHANGED <<chooseVars, valueVars, nameVars, appVars>>

\* the user cancels at the prompt: KeyboardInterrupt leaves
\* ask_value_for_parameter and parse_function_parameters, and App.run exits
\* (cli_app.py lines 384-387)
Interrupt ==
    /\ pc = "asking"
    /\ asking # 0
    /\ pc' = "cancelled"
    /\ UNCHANGED <<parserFields, allow_missing_arguments, result, fed, steps>>
    /\ UNCHANGED <<chooseVars, valueVars, askVars, nameVars, appVars>>

\* argument_parser.py lines 543-556
ReturnArguments ==
    /\ pc = "asking"
    /\ asking = 0
    /\ StillMissing = {}
    /\ returned' = Arguments(parameters, result, 1, NoArguments)
    /\ pc' = IF Arguments(parameters, result, 1, NoArguments).raised = ""
             THEN "returned" ELSE "raised"
    /\ UNCHANGED <<parserFields, allow_missing_arguments, result, fed, steps>>
    /\ UNCHANGED <<chooseVars, valueVars, askVars, nameVars>>
    /\ UNCHANGED <<user_provided_parameters, prompts>>

\* cli_app.py line 381
CallCommand ==
    /\ pc = "returned"
    /\ pc' = "called"
    /\ UNCHANGED <<parserFields, allow_missing_arguments, result, fed, steps>>
    /\ UNCHANGED <<chooseVars, valueVars, askVars, nameVars, appVars>>

Next ==
    \/ FeedOne
    \/ Finish
    \/ Surface
    \/ Ask
    \/ Answer
    \/ Interrupt
    \/ ReturnArguments
    \/ CallCommand

Spec == Init /\ [][Next]_vars

(***************************************************************************)
(* SpecChoose: one call of common.choose_string, on name groups (a         *)
(* canonical name and its aliases) and a selection drawn from small sets.  *)
(***************************************************************************)
SeqsUpTo(S, n) == UNION {[1 .. k -> S] : k \in 0 .. n}

NameGroups ==
    {<<<<"h", "e", "l", "p">>>>, <<<<"h", "e">>>>, <<<<"H", "E">>, <<"h", "e", "x">>>>, <<<<"h", "_", "e">>>>,
     <<<<"b", "u", "i", "l", "d">>, <<"r", "e", "b", "u", "i", "l", "d">>>>, <<<<"B", "u", "n", "d", "l", "e">>>>, <<<<"s", "t", "a", "r", "t">>>>, <<<<"s", "t", "o", "p">>>>}

OptionLists == SeqsUpTo(NameGroups, MaxGroups)

Selections == {<<"h", "e">>, <<" ", "H", "e", " ">>, <<"h", " ", "e">>, <<"b", "u">>, <<"s", "t">>, <<"x", "y", "z">>}

ParserIdle == ParserInit(<<>>) /\ pc = "idle"

InitChoose ==
    /\ ParserIdle
    /\ options \in OptionLists
    /\ selection \in Selections
    /\ chosen = NotCalled
    /\ ValueIdle
    /\ NameIdle
    /\ NoUserParameters

Choose ==
    /\ chosen = NotCalled
    /\ chosen' = choose_string(options, selection)
    /\ UNCHANGED <<options, selection>>
    /\ UNCHANGED <<parserVars, valueVars, askVars, nameVars, appVars>>

NextChoose == Choose

SpecChoose == InitChoose /\ [][NextChoose]_vars

(***************************************************************************)
(* SpecParse: one call of parse_value, on a raw string and a type drawn    *)
(* from small sets.                                                        *)
(***************************************************************************)
LiteralNames == {<<"a">>, <<"A">>, <<"a", "b">>, <<"a", "_", "b">>, <<"a", "-", "b">>}

IsInjective(f) == \A i, j \in DOMAIN f : f[i] = f[j] => i = j

\* Literal[...] keeps one of each of its arguments
LiteralTypes ==
    {LiteralType(opts) :
        opts \in {f \in SeqsUpTo(LiteralNames, MaxLiterals) :
                     f # <<>> /\ IsInjective(f)}}

Types ==
    LiteralTypes \cup
    {StrType, AnyType, BoolType, IntType, FloatType, ListType,
     UnionType(<<IntType, NoneType>>),
     UnionType(<<IntType, FloatType>>),
     UnionType(<<BoolType, IntType>>),
     UnionType(<<IntType, BoolType>>),
     UnionType(<<NoneType, BoolType, StrType>>),
     UnionType(<<FloatType, LiteralType(<<<<"a", "b">>, <<"a", "_", "b">>>>)>>)}

RawValues ==
    LiteralNames \cup
    {<<"3">>, <<"-", "1", "_", "0">>, <<" ", "1", " ">>, <<"1", ".", "5">>, <<"1", "e", "2">>, <<"i", "n", "f">>, <<"Y", "e", "s">>, <<"0">>, <<"b">>, <<"x", " ", "y">>, <<>>}

InitParse ==
    /\ ParserIdle
    /\ ChooseIdle
    /\ value \in RawValues
    /\ typ \in Types
    /\ parsed = NotParsed
    /\ NameIdle
    /\ NoUserParameters

ParseValue ==
    /\ parsed = NotParsed
    /\ parsed' = parse_value(value, typ)
    /\ UNCHANGED <<value, typ>>
    /\ UNCHANGED <<parserVars, chooseVars, askVars, nameVars, appVars>>

NextParse == ParseValue

SpecParse == InitParse /\ [][NextParse]_vars

(***************************************************************************)
(* parse_function_name.  A command is a group: its name, then its aliases  *)
(* (function_names[i] and function_aliases[i]); the summaries are None.    *)
(***************************************************************************)
\* what parse_function_name returned or raised
SelectedCommand(name, remaining) == [raised |-> "", name |-> name, rest |-> remaining]

SelectRaised(exception) == [raised |-> exception, name |-> <<>>, rest |-> <<>>]

\* lines 637-644, every summary being None: the label of a command is its
\* pretty name in bold
CommandMenu(function_names) ==
    DictOf([i \in DOMAIN function_names |-> python_name_to_pretty(function_names[i])],
           function_names, <<>>)

\* the state parse_function_name is left in: returned or raised, or showing
\* the menu of line 647
NameState(at, found, outcome, shown) ==
    [pc |-> at, chosen |-> found, selected |-> outcome, menu |-> shown]

\* lines 632-655
AskForName(groups, inter, found) ==
    IF ~inter THEN
        NameState("raised", found, SelectRaised("NoOptionGivenError"), <<>>)
    ELSE NameState("menu", found, NotSelected, CommandMenu(FirstNames(groups)))

\* NameFound returning the name as it was typed
NameFound_AsTyped(groups, raw, found) ==
    NameState("selected", found, SelectedCommand(raw[1], Tail(raw)), <<>>)

\* line 630
NameFound(groups, raw, found) ==
    NameState("selected", found,
              SelectedCommand(FirstNames(groups)[found.index + 1], Tail(raw)), <<>>)

\* lines 596-630, found being what choose_string returned or raised
NameChosen(groups, raw, inter, found) ==
    IF found.raised = "" THEN NameFound(groups, raw, found)
    ELSE IF ~inter THEN NameState("raised", found, SelectRaised(found.raised), <<>>)
    ELSE AskForName(groups, inter, found)

parse_function_name(groups, raw, inter) ==
    IF raw # <<>> THEN NameChosen(groups, raw, inter, choose_string(groups, raw[1]))
    ELSE AskForName(groups, inter, NotCalled)

(***************************************************************************)
(* SpecSelect: one call of parse_function_name, on commands, raw_args and  *)
(* interactive drawn from small sets, with the user's pick from the menu.  *)
(***************************************************************************)
CommandLists == OptionLists \ {<<>>}

\* what may follow the first of raw_args
MoreArgs == {<<"x">>, Long(<<"k">>)}

RawArgs ==
    {<<>>} \cup
    UNION {{<<first>> \o more : more \in SeqsUpTo(MoreArgs, MaxArgs - 1)} :
              first \in Selections}

InitSelect ==
    /\ ParserInit(<<>>)
    /\ pc = "selecting"
    /\ options \in CommandLists
    /\ raw_args \in RawArgs
    /\ selection = IF raw_args = <<>> THEN <<>> ELSE raw_args[1]
    /\ chosen = NotCalled
    /\ interactive \in BOOLEAN
    /\ selected = NotSelected
    /\ menu = <<>>
    /\ ValueIdle
    /\ NoUserParameters

\* parse_function_name up to its return, its raise or its menu
SelectName ==
    /\ pc = "selecting"
    /\ pc' = parse_function_name(options, raw_args, interactive).pc
    /\ chosen' = parse_function_name(options, raw_args, interactive).chosen
    /\ selected' = parse_function_name(options, raw_args, interactive).selected
    /\ menu' = parse_function_name(options, raw_args, interactive).menu
    /\ UNCHANGED <<options, selection, raw_args, interactive>>
    /\ UNCHANGED <<parserFields, allow_missing_arguments, result, fed, steps>>
    /\ UNCHANGED <<valueVars, askVars, appVars>>

\* the user confirms a line of the menu (menu.py lines 163-168), and lines
\* 646-655 return its command and no arguments
PickCommand ==
    /\ pc = "menu"
    /\ \E k \in DOMAIN menu : selected' = SelectedCommand(menu[k].value, <<>>)
    /\ pc' = "selected"
    /\ UNCHANGED <<options, selection, chosen, raw_args, interactive, menu>>
    /\ UNCHANGED <<parserFields, allow_missing_arguments, result, fed, steps>>
    /\ UNCHANGED <<valueVars, askVars, appVars>>

\* the user cancels the menu: App.run exits (cli_app.py lines 346-349)
CancelMenu ==
    /\ pc = "menu"
    /\ selected' = SelectRaised("KeyboardInterrupt")
    /\ pc' = "cancelled"
    /\ UNCHANGED <<options, selection, chosen, raw_args, interactive, menu>>
    /\ UNCHANGED <<parserFields, allow_missing_arguments, result, fed, steps>>
    /\ UNCHANGED <<valueVars, askVars, appVars>>

NextSelect == SelectName \/ PickCommand \/ CancelMenu

SpecSelect == InitSelect /\ [][NextSelect]_vars

(***************************************************************************)
(* SpecPrepare: App.run building the parameters of the command it found    *)
(* (cli_app.py lines 362-369), the command having been registered with     *)
(* parameters=[Parameter(name, prompt=...), ...].                          *)
(***************************************************************************)
\* cli_app.Parameter
UserParameter(name, prompt) == [name |-> name, prompt |-> prompt]

\* a prompt written for the parameter of that name
PromptFor(name) == <<"?">> \o name

\* the lists parameters_from_function gives
FunctionParameterLists == ParameterLists \ {ParamsLate}

\* App.command (cli_app.py lines 289-294) accepts a Parameter whose name is
\* that of a parameter of the function, with or without a prompt
UserParametersFor(ps) ==
    UNION {{UserParameter(python_name(ps[i]), None),
            UserParameter(python_name(ps[i]), PromptFor(python_name(ps[i])))} :
           i \in DOMAIN ps}

\* cli_app.py lines 366-369: the loop over zip(parser_params,
\* command.user_provided_parameters)
AttachPrompts(old, user) ==
    [i \in DOMAIN old |-> IF i <= Len(user) THEN user[i].prompt ELSE old[i]]

InitPrepare ==
    /\ \E ps \in FunctionParameterLists :
        /\ ParserInit(ps)
        /\ user_provided_parameters
               \in SeqsUpTo(UserParametersFor(ps), MaxUserParameters)
    /\ pc = "preparing"
    /\ ChooseIdle
    /\ ValueIdle
    /\ NameIdle

Prepare ==
    /\ pc = "preparing"
    /\ prompts' = AttachPrompts(prompts, user_provided_parameters)
    /\ pc' = "prepared"
    /\ UNCHANGED <<parserFields, allow_missing_arguments, result, fed, steps>>
    /\ UNCHANGED <<chooseVars, valueVars, askVars, nameVars>>
    /\ UNCHANGED <<user_provided_parameters, returned>>

NextPrepare == Prepare

SpecPrepare == InitPrepare /\ [][NextPrepare]_vars

(***************************************************************************)
(* Properties of the token parser, checked under Spec.                     *)
(***************************************************************************)
\* a parser that is not awaiting a value and still allows flags
Receptive == pc = "feeding" /\ current_parameter = None /\ allow_flags

FlagIndexes == {i \in DOMAIN parameters : parameters[i].is_flag}

ShorthandIndexes == {i \in FlagIndexes : parameters[i].shorthand # None}

BoolFlagIndexes == {i \in FlagIndexes : parameters[i].type.kind = "bool"}

\* the binding and the errors after finish
Outcome(self, allow) ==
    [binding |-> finish(self, allow).result,
     errors |-> finish(self, allow).self.errors]

\* the binding and the set of errors after finish
OutcomeSet(self, allow) ==
    [binding |-> finish(self, allow).result,
     errors |-> Range(finish(self, allow).self.errors)]

LastOf(seq) == seq[Len(seq)]

\* values a flag is given in the properties below
FlagValues == {<<"3">>, <<"f", "a", "l", "s", "e">>, <<"x">>}

\* values of every shape: plain, empty, shaped like the end-of-flags marker,
\* like a short or a long flag, and holding a line break
ShapeValues == {<<"3">>, <<>>, EndOfFlags, Short(<<"c">>), Long(s_count), <<"a", "\n", "b">>}

\* C1: resolving ["foo", "-c", "3"] non-interactively against [positional
\* name: str, flag count/c: int = 1, flag dry-run: bool = False] yields the
\* binding {name: "foo", count: 3, dry-run: False} and no errors.
C1_EndToEnd ==
    ( /\ pc = "finished"
      /\ parameters = ParamsCount
      /\ ~allow_missing_arguments
      /\ fed = <<s_foo, Short(<<"c">>), <<"3">>>> )
    => /\ result = <<StrValue(s_foo), IntValue(3), BoolValue(FALSE)>>
       /\ errors = <<>>

\* the parser before the last k of the values fed
Before(k) == feed_many(NewParser(parameters), Take(fed, Len(fed) - k))

IsReceptive(self) == self.current_parameter = None /\ self.allow_flags

\* C2: for every flag with long name n and shorthand x and every value v, in
\* a receptive parser, feeding `-x v` or `-x=v` and then finishing gives the
\* same binding and the same errors as feeding `--n v` and then finishing.
C2_ShorthandAsLong ==
    pc = "finished" =>
        \A i \in ShorthandIndexes :
            /\ ( /\ Len(fed) >= 2
                 /\ fed[Len(fed) - 1] = Short(parameters[i].shorthand)
                 /\ IsReceptive(Before(2)) )
               => [binding |-> result, errors |-> errors]
                    = Outcome(feed_many(Before(2), <<Long(parameters[i].name),
                                                     LastOf(fed)>>),
                              allow_missing_arguments)
            /\ \A v \in FlagValues :
                ( /\ Len(fed) >= 1
                  /\ LastOf(fed) = ShortEq(parameters[i].shorthand, v)
                  /\ IsReceptive(Before(1)) )
                => [binding |-> result, errors |-> errors]
                     = Outcome(feed_many(Before(1), <<Long(parameters[i].name), v>>),
                               allow_missing_arguments)

\* C3: for every non-boolean flag with long name n and every value v of any
\* shape, in a receptive parser, feeding `--n` and then v leaves the parser
\* in the same state as feeding the one token `--n=v`.
C3_SeparateAsInline ==
    Receptive =>
        \A i \in FlagIndexes \ BoolFlagIndexes : \A v \in ShapeValues :
            feed_many(Self, <<Long(parameters[i].name), v>>)
                = feed_one(Self, LongEq(parameters[i].name, v))

\* C4: for every boolean flag, the bare token `--name` binds the parameter
\* to true and does not make the parser await a value, so that the token
\* after it is not consumed as its value; `--name=false` binds it to false.
C4_BoolFlagPresence ==
    /\ Receptive =>
        \A i \in BoolFlagIndexes :
            /\ feed_one(Self, Long(parameters[i].name)).current_parameter = None
            /\ \A next \in TokensFor(parameters) :
                Branch(feed_one(Self, Long(parameters[i].name)), next) # "value"
            /\ parameters[i].name \notin Keys(assigned_parameters) =>
                \A allow \in BOOLEAN :
                    /\ finish(feed_one(Self, Long(parameters[i].name)), allow)
                           .result[i] = BoolValue(TRUE)
                    /\ finish(feed_one(Self, LongEq(parameters[i].name, s_false)),
                              allow).result[i] = BoolValue(FALSE)
    /\ ( /\ pc = "feeding"
         /\ fed # <<>>
         /\ LastOf(steps) = "long"
         /\ \E i \in BoolFlagIndexes : LastOf(fed) = Long(parameters[i].name) )
       => current_parameter = None

\* a bare boolean flag was fed and bound its parameter to true
C4_Witness ==
    /\ pc = "finished"
    /\ parameters = ParamsBool
    /\ fed = <<Long(s_force), <<"x">>>>
    /\ result[2] = BoolValue(TRUE)
    /\ rest = <<<<"x">>>>

\* C5: for every two boolean flags with shorthands a and b, the tokens
\* `-ab`, `-ba` and the two tokens `-a`, `-b` all produce the same binding
\* and the same set of errors after finish.
C5_ClusterOrder ==
    Receptive =>
        \A i, j \in BoolFlagIndexes \cap ShorthandIndexes : \A allow \in BOOLEAN :
            i # j =>
                /\ OutcomeSet(feed_one(Self, Short(parameters[i].shorthand
                                                   \o parameters[j].shorthand)), allow)
                    = OutcomeSet(feed_many(Self, <<Short(parameters[i].shorthand),
                                                  Short(parameters[j].shorthand)>>),
                                 allow)
                /\ OutcomeSet(feed_one(Self, Short(parameters[j].shorthand
                                                   \o parameters[i].shorthand)), allow)
                    = OutcomeSet(feed_many(Self, <<Short(parameters[i].shorthand),
                                                  Short(parameters[j].shorthand)>>),
                                 allow)

\* a cluster of two boolean shorthands was fed and the parser finished
C5_Witness ==
    /\ pc = "finished"
    /\ parameters = ParamsBool
    /\ fed = <<Short(<<"v", "f">>)>>
    /\ steps = <<"short">>

\* the parser before the k-th of the values fed
At(k) == feed_many(NewParser(parameters), Take(fed, k - 1))

VariadicPositionals ==
    {i \in DOMAIN parameters : ~parameters[i].is_flag /\ parameters[i].is_variadic}

\* the place of parameter i among the positional parameters, from 0
PositionOf(i) == Cardinality({j \in 1 .. (i - 1) : ~parameters[j].is_flag})

\* the elements of seq at the indexes in idxs, in their order
RECURSIVE Pick(_, _)
Pick(seq, idxs) ==
    IF idxs = {} THEN <<>>
    ELSE Append(Pick(seq, idxs \ {Max(idxs)}), seq[Max(idxs)])

\* the values fed that feed_one handled as positional with the cursor on
\* parameter i, in input order
PositionalTokensOf(i) ==
    Pick(fed, {k \in DOMAIN fed :
                  /\ steps[k] = "positional"
                  /\ At(k).next_positional_parameter_index = PositionOf(i)})

RECURSIVE IsSubsequence(_, _)
IsSubsequence(sub, seq) ==
    IF sub = <<>> THEN TRUE
    ELSE IF seq = <<>> THEN FALSE
    ELSE IF Head(sub) = Head(seq) THEN IsSubsequence(Tail(sub), Tail(seq))
    ELSE IsSubsequence(sub, Tail(seq))

\* the typed values of those of the raw values that coerce to type t
Coerces(raw, t) == parse_value(raw, t).raised = ""

Coerced(raws, t) ==
    LET good == Pick(raws, {k \in DOMAIN raws : Coerces(raws[k], t)})
    IN  [k \in DOMAIN good |-> parse_value(good[k], t).value]

OnlyPositionalSteps == \A k \in DOMAIN steps : steps[k] \in {"positional", "end-of-flags"}

FedStep == pc = "feeding" /\ pc' = "feeding" /\ fed' # fed

\* the value just fed went to the positional parameter under the cursor or,
\* the cursor being past the last one, to self.rest, and did nothing else
TreatedAsPositional ==
    /\ current_parameter' = current_parameter
    /\ allow_flags' = allow_flags
    /\ errors' = errors
    /\ IF next_positional_parameter_index < Len(positional_parameters(parameters))
       THEN /\ assigned_parameters' =
                   SetDefaultAppend(
                       assigned_parameters,
                       positional_parameters(parameters)[
                           next_positional_parameter_index + 1].name,
                       LastOf(fed'))
            /\ rest' = rest
       ELSE /\ assigned_parameters' = assigned_parameters
            /\ rest' = Append(rest, LastOf(fed'))

\* C7 as claimed: any token that comes after a `--` token is treated as a
\* positional value or overflow and never as a flag; once allow_flags is
\* false it never becomes true again.
C7_AfterAnyDashDash ==
    [][ /\ ~allow_flags => ~allow_flags'
        /\ (FedStep /\ \E k \in DOMAIN fed : fed[k] = EndOfFlags)
           => TreatedAsPositional ]_vars

\* C7, amended: any token that comes after a `--` token that was not itself
\* consumed as the value of a flag awaiting one is treated as a positional
\* value or overflow and never as a flag; once allow_flags is false it never
\* becomes true again.
C7_AfterEndOfFlags ==
    [][ /\ ~allow_flags => ~allow_flags'
        /\ (FedStep /\ \E k \in DOMAIN fed :
                            fed[k] = EndOfFlags /\ steps[k] # "value")
           => TreatedAsPositional ]_vars

\* a token shaped like a long flag was fed after `--` and went to the first
\* positional parameter
C7_Witness ==
    /\ pc = "feeding"
    /\ parameters = ParamsVariadic
    /\ fed = <<EndOfFlags, Long(<<"k">>)>>
    /\ ~allow_flags
    /\ assigned_parameters = <<[key |-> s_src, values |-> <<Long(<<"k">>)>>]>>

(***************************************************************************)
(* Properties of choose_string, checked under SpecChoose.                  *)
(***************************************************************************)
Groups == 0 .. (Len(options) - 1)

\* the groups with an alias that normalizes to exactly the normalized input
ExactGroups ==
    {i \in Groups : \E j \in DOMAIN options[i + 1] :
        normalize(options[i + 1][j]) = normalize(selection)}

\* the aliases, as (group, place) pairs, whose normalized form contains the
\* normalized input as a substring
PartialAliases ==
    {a \in UNION {{<<i, j>> : j \in DOMAIN options[i + 1]} : i \in Groups} :
        Contains(normalize(options[a[1] + 1][a[2]]), normalize(selection))}

PartialGroups == {a[1] : a \in PartialAliases}

\* C8: whenever some alias of some group normalizes to exactly the
\* normalized input, choose_string returns the index of the lowest-indexed
\* such group, whatever the order of the groups and however many other
\* groups contain the input as a substring; it raises neither error.
C8_ExactMatchWins ==
    (chosen # NotCalled /\ ExactGroups # {}) => chosen = Returned(Min(ExactGroups))

\* "he" selects the second of "help", "he", though the first contains it
C8_Witness ==
    /\ options = <<<<<<"h", "e", "l", "p">>>>, <<<<"h", "e">>>>>>
    /\ selection = <<"h", "e">>
    /\ chosen = Returned(1)

\* what C9 says of every outcome but the strings AmbiguousOptionError carries
C9_Outcomes ==
    /\ chosen.raised = "NoSuchOptionError" <=> PartialGroups = {}
    /\ chosen.raised = "NoSuchOptionError"
       => chosen.available_options = FirstNames(options)
    /\ chosen.raised = "" <=> Cardinality(PartialGroups) = 1
    /\ chosen.raised = "" => chosen.index = TheOne(PartialGroups)
    /\ chosen.raised = "AmbiguousOptionError" <=> Cardinality(PartialGroups) >= 2

\* C9 as claimed: when no alias normalizes exactly to the input, the result
\* is NoSuchOptionError (with the first name of every group in declared
\* order) iff no group has an alias containing the normalized input, the
\* group's index iff exactly one group has such an alias, and
\* AmbiguousOptionError carrying the matched alias strings iff two or more
\* groups have one.
C9_AliasStrings ==
    (chosen # NotCalled /\ ExactGroups = {})
    => /\ C9_Outcomes
       /\ chosen.raised = "AmbiguousOptionError"
          => chosen.matching_options
                = {options[a[1] + 1][a[2]] : a \in PartialAliases}

\* C9, amended: when no alias normalizes exactly to the input, the result
\* is NoSuchOptionError (with the first name of every group in declared
\* order) iff no group has an alias containing the normalized input, the
\* group's index iff exactly one group has such an alias, and
\* AmbiguousOptionError carrying the normalized forms of the matched aliases
\* (trimmed, lowercased, spaces and underscores turned into hyphens) iff two
\* or more groups have one.
C9_PartialMatches ==
    (chosen # NotCalled /\ ExactGroups = {})
    => /\ C9_Outcomes
       /\ chosen.raised = "AmbiguousOptionError"
          => chosen.matching_options
                = {normalize(options[a[1] + 1][a[2]]) : a \in PartialAliases}

\* "bu" matches two aliases of the first group and one of the second
C9_Witness ==
    /\ options = <<<<<<"b", "u", "i", "l", "d">>, <<"r", "e", "b", "u", "i", "l", "d">>>>, <<<<"B", "u", "n", "d", "l", "e">>>>>>
    /\ selection = <<"b", "u">>
    /\ chosen.raised = "AmbiguousOptionError"
    /\ chosen.matching_options = {<<"b", "u", "i", "l", "d">>, <<"r", "e", "b", "u", "i", "l", "d">>, <<"b", "u", "n", "d", "l", "e">>}

(***************************************************************************)
(* Properties of parse_value, checked under SpecParse.                     *)
(***************************************************************************)
\* C10: for every Literal type and every value v among its arguments,
\* parse_value of v for that type returns exactly v, also when other
\* arguments contain v as a substring or differ from v only in case or in
\* space, underscore or hyphen separators.
C10_LiteralRoundTrip ==
    ( /\ parsed # NotParsed
      /\ typ.kind = "Literal"
      /\ \E i \in DOMAIN typ.args : typ.args[i] = value )
    => parsed = Return(StrValue(value))

(***************************************************************************)
(* Properties of parse_function_parameters, checked under Spec.            *)
(***************************************************************************)
\* C11: resolving the tokens foo, --count=bar non-interactively against
\* name (positional str, required), count (int flag, default 1) and dry-run
\* (bool flag, default false) leaves count without any binding, neither a
\* value nor its default, records exactly one error, an invalid value error
\* that quotes bar, and the call fails.
C11_InvalidCount ==
    ( /\ parameters = ParamsCount
      /\ fed = <<s_foo, LongEq(s_count, s_bar)>>
      /\ ~allow_missing_arguments
      /\ pc # "feeding" )
    => /\ result[2] = Unbound
       /\ Len(errors) = 1
       /\ errors[1].text = "Invalid value for"
       /\ errors[1].quoted = s_count
       /\ errors[1].cause[1].quoted = s_bar
       /\ pc \in {"finished", "failed"}

C11_Witness ==
    /\ parameters = ParamsCount
    /\ fed = <<s_foo, LongEq(s_count, s_bar)>>
    /\ ~allow_missing_arguments
    /\ pc = "failed"
    /\ result = <<StrValue(s_foo), Unbound, BoolValue(FALSE)>>

\* C12: at finish every token placed in self.rest (a positional token
\* received after the cursor ran past the positional parameters) produces an
\* unexpected value error, so a pass that received surplus positional tokens
\* never ends with an empty error list and never succeeds.
C12_OverflowReported ==
    (pc # "feeding" /\ rest # <<>>)
    => /\ \A k \in DOMAIN rest :
            \E e \in DOMAIN errors : errors[e] = UnexpectedValue(rest[k])
       /\ errors # <<>>
       /\ pc \notin {"asking", "returned", "called"}

\* the errors of the pass are all missing value errors
OnlyMissingValues ==
    \A e \in DOMAIN errors : errors[e].text = "Missing value for"

\* C13: in interactive mode a missing value never aborts the pass: both
\* when a required parameter received no value and when a flag was still
\* awaiting its value at the end of the token list, the pass goes on to ask
\* for the parameter instead of failing.
C13_MissingValueAsks ==
    ( /\ allow_missing_arguments
      /\ pc \notin {"feeding", "finished"}
      /\ OnlyMissingValues )
    => pc # "failed"

\* the pass recorded an error that is no missing value error
OtherError ==
    \E e \in DOMAIN errors :
        errors[e].text \in {"Too many values for", "Unexpected value",
                            "Invalid value for"}

\* C14: in interactive mode, if the pass recorded any error of a kind other
\* than a missing value (too many values, unexpected value, invalid value),
\* parse_function_parameters fails and no prompt is shown in that pass: the
\* errors are looked at before anything is asked.
C14_ErrorsBeforePrompts ==
    (allow_missing_arguments /\ pc # "feeding" /\ OtherError)
    => /\ pc \in {"finished", "failed"}
       /\ asked = <<>>
       /\ asking = 0

\* an interactive pass failed on an invalid value while a required
\* parameter had no value
C14_Witness ==
    /\ allow_missing_arguments
    /\ pc = "failed"
    /\ OtherError
    /\ \E i \in DOMAIN result :
          result[i] = Unbound /\ parameters[i].name \notin {errors[e].quoted : e \in DOMAIN errors}
    /\ asked = <<>>

\* C15: when the user cancels at a prompt, the KeyboardInterrupt leaves the
\* resolver uncaught: the pass ends without a binding for the parameter
\* asked for, no further prompt is shown, the cancelled prompt is not shown
\* again, and the command is never called (nothing at all happens after the
\* pass was cancelled).
C15_CancelEndsPass ==
    [][ /\ pc # "cancelled"
        /\ pc' = "cancelled"
           => /\ pc = "asking"
              /\ asked' = asked
              /\ result' = result
              /\ result[asking] = Unbound ]_vars

\* the user cancelled the first of two prompts
C15_Witness ==
    /\ pc = "cancelled"
    /\ Len(asked) = 1
    /\ Cardinality(StillMissing) = 2

(***************************************************************************)
(* Properties of parse_function_name, checked under SpecSelect.            *)
(***************************************************************************)
\* the first of raw_args matches a command exactly or uniquely
MatchesOne ==
    raw_args # <<>> /\ (ExactGroups # {} \/ Cardinality(PartialGroups) = 1)

\* the command it matches, from 0
MatchedGroup ==
    IF ExactGroups # {} THEN Min(ExactGroups) ELSE TheOne(PartialGroups)

\* C16: with a non-empty raw_args whose first token matches exactly or
\* uniquely, parse_function_name returns the name of the matched command
\* (its function name, never the alias or abbreviation typed) together with
\* raw_args[1:] unchanged and in order, and shows no menu, whether it is
\* interactive or not.
C16_CanonicalName ==
    (pc # "selecting" /\ MatchesOne)
    => /\ pc = "selected"
       /\ selected = SelectedCommand(options[MatchedGroup + 1][1], Tail(raw_args))
       /\ menu = <<>>

\* "he" is the normalized form of the name HE, and an argument follows it
C16_Witness ==
    /\ pc = "selected"
    /\ options = <<<<<<"H", "E">>, <<"h", "e", "x">>>>>>
    /\ raw_args = <<<<"h", "e">>, <<"x">>>>
    /\ selected = SelectedCommand(<<"H", "E">>, <<<<"x">>>>)

\* the commands the menu offers
Offered == {menu[k].value : k \in DOMAIN menu}

\* what C17 says but for the commands the menu offers
C17_Outcomes ==
    /\ ~interactive
       => /\ pc = "raised"
          /\ selected = SelectRaised(IF PartialGroups = {}
                                     THEN "NoSuchOptionError"
                                     ELSE "AmbiguousOptionError")
          /\ menu = <<>>
    /\ interactive
       => /\ pc \in {"menu", "selected", "cancelled"}
          /\ pc = "selected"
             => \E k \in DOMAIN menu : selected = SelectedCommand(menu[k].value, <<>>)

\* C17: when the first token matches no command or several,
\* parse_function_name raises the error if it is not interactive and returns
\* no command; if it is interactive, the user is asked to choose from the
\* full catalog (every command is offered) and the result is the command
\* chosen with no remaining tokens, whatever followed the first token.
C17_FullCatalog ==
    (pc # "selecting" /\ raw_args # <<>> /\ ~MatchesOne)
    => /\ C17_Outcomes
       /\ interactive => Offered = {options[i][1] : i \in DOMAIN options}

(***************************************************************************)
(* Determinism of parse_function_parameters, checked under Spec.           *)
(***************************************************************************)
\* C18: resolution is deterministic: two passes given the same parameters,
\* the same tokens, the same interactive flag and the same answers of the
\* user produce the same binding and the same errors, and ask for the
\* missing parameters in the same order; that is, what a pass has done so
\* far leaves only one parameter it can ask for next.
C18_FixedPromptOrder ==
    \A i, j \in DOMAIN parameters :
        (ENABLED AskFor(i) /\ ENABLED AskFor(j)) => i = j

(***************************************************************************)
(* The messages of parse_value, checked under SpecParse.                   *)
(***************************************************************************)
\* C19: every ArgumentError parse_value raises, for a bool, an int, a float,
\* a Literal or a Union, has a message that quotes the raw value exactly as
\* it was given.
C19_MessageQuotesRaw ==
    parsed.raised = "ArgumentError" => parsed.message.quoted = value

(***************************************************************************)
(* Long flags and declared names, checked under Spec.                      *)
(***************************************************************************)
\* the names of the parameters with is_flag true
FlagNames == {parameters[i].name : i \in FlagIndexes}

\* the binding finish returns for the values fed but those at the indexes
\* in gone
BindingWithout(gone) ==
    finish(feed_many(NewParser(parameters), Pick(fed, DOMAIN fed \ gone)),
           allow_missing_arguments).result

\* C20: a long flag (--n=v, or --n followed by v) binds a value to a
\* parameter only if n is, character for character, the name of a parameter
\* with is_flag true; a long flag of another name (undeclared, different in
\* case, a prefix of a name, or the name of a positional parameter) changes
\* no parameter's binding and its value ends as an unexpected value error
\* at finish.
C20_OnlyDeclaredFlags ==
    pc = "finished" =>
        \A k \in DOMAIN fed :
            ( /\ steps[k] = "long"
              /\ PATTERN_LONG_FLAG(fed[k]).group1 \notin FlagNames )
            => /\ PATTERN_LONG_FLAG(fed[k]).group3 # None
                  => /\ result = BindingWithout({k})
                     /\ \E e \in DOMAIN errors :
                         errors[e] = UnexpectedValue(PATTERN_LONG_FLAG(fed[k]).group3)
               /\ ( /\ PATTERN_LONG_FLAG(fed[k]).group3 = None
                    /\ k < Len(fed) )
                  => /\ result = BindingWithout({k, k + 1})
                     /\ \E e \in DOMAIN errors :
                         errors[e] = UnexpectedValue(fed[k + 1])

(***************************************************************************)
(* The value of a flag awaiting one, checked under Spec.                   *)
(***************************************************************************)
\* the values held under key k of the dict d, none if it has no such key
PendingOf(d, k) == IF k \in Keys(d) THEN Get(d, k) ELSE <<>>

\* C21: if a flag is awaiting its value, the next token fed, whatever its
\* shape (the end-of-flags marker and tokens shaped like long or short flags
\* included), is appended to the values pending under the awaited name and
\* current_parameter is cleared; that step leaves allow_flags, the
\* positional cursor, self.rest, self.errors and the values pending under
\* every other name unchanged.
C21_AwaitedValue ==
    [][ (FedStep /\ current_parameter # None)
        => /\ PendingOf(assigned_parameters', current_parameter)
                = Append(PendingOf(assigned_parameters, current_parameter),
                         LastOf(fed'))
           /\ current_parameter' = None
           /\ allow_flags' = allow_flags
           /\ next_positional_parameter_index' = next_positional_parameter_index
           /\ rest' = rest
           /\ errors' = errors
           /\ Keys(assigned_parameters')
                = Keys(assigned_parameters) \cup {current_parameter}
           /\ \A k \in Keys(assigned_parameters) \ {current_parameter} :
                Get(assigned_parameters', k) = Get(assigned_parameters, k) ]_vars

\* the end-of-flags marker was fed to a flag awaiting its value, and flags
\* are still allowed
C21_Witness ==
    /\ pc = "feeding"
    /\ parameters = ParamsCount
    /\ fed = <<s_foo, Long(s_count), EndOfFlags>>
    /\ steps[3] = "value"
    /\ allow_flags
    /\ current_parameter = None
    /\ PendingOf(assigned_parameters, s_count) = <<EndOfFlags>>

(***************************************************************************)
(* parse_value on a Union, checked under SpecParse.                        *)
(***************************************************************************)
\* the members of the Union typ that are not NoneType and that coerce value
Succeeding ==
    {i \in DOMAIN typ.args :
        /\ typ.args[i].kind # "NoneType"
        /\ ParseMember(value, typ.args[i]).raised = ""}

\* the messages of the members of the Union typ that do not coerce value
MemberMessages ==
    {ParseMember(value, typ.args[i]).message :
        i \in {j \in DOMAIN typ.args : typ.args[j].kind # "NoneType"}}

\* C22: parse_value on Optional[T] or Union[T1..Tn] returns what the first
\* member other than NoneType, in declared order, whose coercion succeeds
\* makes of the raw string (later members are not consulted, so the declared
\* order decides the type of the result); if every member fails, it raises
\* one ArgumentError that names the whole Union, and the message of no
\* member is surfaced.
C22_FirstSuccess ==
    (typ.kind = "Union" /\ parsed # NotParsed)
    => /\ Succeeding # {}
          => parsed = Return(ParseMember(value, typ.args[Min(Succeeding)]).value)
       /\ Succeeding = {}
          => /\ parsed.raised = "ArgumentError"
             /\ parsed.message.text = "is not a valid value for"
             /\ parsed.message.quoted = value
             /\ parsed.message.listed = typ.args
             /\ parsed.message \notin MemberMessages

\* "0" is a bool and an int: the member declared first decides
C22_Witness ==
    /\ typ = UnionType(<<BoolType, IntType>>)
    /\ value = <<"0">>
    /\ parsed = Return(BoolValue(FALSE))
    /\ Cardinality(Succeeding) = 2

(***************************************************************************)
(* What finish makes of each parameter, checked under Spec.                *)
(***************************************************************************)
\* the step of finish, taken without an exception
FinishStep == pc = "feeding" /\ pc' = "finished"

\* how many of the errors in errs are the error err
CountOf(errs, err) == Cardinality({e \in DOMAIN errs : errs[e] = err})

\* the errors in errs about a value of the parameter called name
InvalidValuesOf(errs, name) ==
    {e \in DOMAIN errs : errs[e].text = "Invalid value for" /\ errs[e].quoted = name}

WithoutValues == {i \in DOMAIN parameters : parameters[i].name \notin Keys(assigned_parameters)}

\* the missing value errors the step of finish added for the name
NewMissingErrors(name) ==
    CountOf(errors', MissingValueFor(name)) - CountOf(errors, MissingValueFor(name))

\* 1 if the flag still awaiting its value goes by the name, else 0
Dangling(name) == IF current_parameter = name THEN 1 ELSE 0

\* what the raw values make of a parameter, whatever its default
FromValues(param, raws) ==
    IF param.is_variadic THEN TupleValue(Coerced(raws, param.type))
    ELSE IF Len(raws) = 1 /\ Coerces(raws[1], param.type)
         THEN parse_value(raws[1], param.type).value
    ELSE Unbound

\* the binding of a parameter without raw values, and the missing value
\* errors under its name but those counted in extra
DefaultOrMissing(i, extra) ==
    IF parameters[i].default_value # NO_DEFAULT THEN
        /\ result'[i] = parameters[i].default_value
        /\ NewMissingErrors(parameters[i].name) = extra
    ELSE IF allow_missing_arguments' THEN
        /\ result'[i] = Unbound
        /\ NewMissingErrors(parameters[i].name) = extra
    ELSE
        /\ result'[i] = Unbound
        /\ NewMissingErrors(parameters[i].name) = extra + 1

\* a parameter with raw values is bound to what they give, or not at all
NeverDefaulted ==
    \A i \in (DOMAIN parameters) \ WithoutValues :
        result'[i] = FromValues(parameters[i],
                                Get(assigned_parameters, parameters[i].name))

AskStep == asking = 0 /\ asking' # 0

\* the parameters finish left out of the dict it returned
UnboundAtFinish == MissingParams(BindingWithout({}))

\* C25: in interactive mode with no errors after finish,
\* ask_value_for_parameter is called exactly once for each parameter finish
\* left unbound and never for a parameter that has a binding; after the
\* prompts every parameter is bound.
C25_OncePerMissing ==
    [][ /\ AskStep
           => /\ allow_missing_arguments
              /\ errors = <<>>
              /\ asking' \in UnboundAtFinish
              /\ result[asking'] = Unbound
              /\ asking' \notin Range(asked)
        /\ (pc = "asking" /\ pc' = "returned")
           => /\ Range(asked) = UnboundAtFinish
              /\ \A i \in DOMAIN parameters : result[i] # Unbound ]_vars

\* src and files were both asked for, files first, and the pass returned
C25_Witness ==
    /\ pc = "returned"
    /\ parameters = ParamsVariadic
    /\ fed = <<Long(<<"k">>), <<"x">>>>
    /\ asked = <<2, 1>>
    /\ result[3] = StrValue(<<"x">>)
    /\ \A i \in DOMAIN parameters : result[i] # Unbound

(***************************************************************************)
(* Errors never end a pass of the parser early, checked under Spec.        *)
(***************************************************************************)
IsPrefix(s, t) == Len(s) <= Len(t) /\ \A k \in DOMAIN s : s[k] = t[k]

\* the parser but for its errors
WithoutErrors(self) == [self EXCEPT !.errors = <<>>]

\* the value just fed did to the parser what it would have done had no
\* error been recorded before, and the errors recorded before are kept
ErrorsIgnored ==
    /\ WithoutErrors(feed_one(Self, LastOf(fed')))
            = WithoutErrors(feed_one(WithoutErrors(Self), LastOf(fed')))
    /\ feed_one(Self, LastOf(fed')).errors
            = errors \o feed_one(WithoutErrors(Self), LastOf(fed')).errors

\* the letter is the shorthand of a flag of type bool
IsBoolShorthand(letter) ==
    \E i \in BoolFlagIndexes : parameters[i].shorthand = letter

\* the letters of a cluster before its last that are no boolean shorthands,
\* in their order
BadLetters(cluster) ==
    Pick(cluster, {k \in 1 .. (Len(cluster) - 1) : ~IsBoolShorthand(cluster[k])})

\* how often one letter is among the letters of a cluster before its last
TimesBefore(cluster, letter) ==
    Cardinality({k \in 1 .. (Len(cluster) - 1) : cluster[k] = letter})

\* what the cluster adds to the values pending under one letter
ClusterAdds(cluster, given, letter) ==
    [k \in 1 .. (IF IsBoolShorthand(letter) THEN TimesBefore(cluster, letter) ELSE 0)
        |-> s_true]
    \o (IF LastOf(cluster) # letter THEN <<>>
        ELSE IF given # None THEN <<given>>
        ELSE IF IsBoolShorthand(letter) THEN <<s_true>>
        ELSE <<>>)

\* every letter of the cluster just fed was handled: one error for each
\* letter before the last that is no boolean shorthand, true for each that
\* is, and the last letter given its value, true, or left awaiting one
ClusterHandled(cluster, given) ==
    /\ errors' = errors \o [k \in DOMAIN BadLetters(cluster) |->
                                MissingValueFor(<<"-">> \o BadLetters(cluster)[k])]
    /\ \A letter \in Range(cluster) \cup Keys(assigned_parameters) :
            PendingOf(assigned_parameters', letter)
                = PendingOf(assigned_parameters, letter)
                    \o ClusterAdds(cluster, given, letter)
    /\ current_parameter' =
            IF given = None /\ ~IsBoolShorthand(LastOf(cluster))
            THEN LastOf(cluster) ELSE None

\* the raw values at the indexes that do not coerce to the type
Failing(raws, t) == {k \in DOMAIN raws : ~Coerces(raws[k], t)}

\* finish visited every parameter, whatever errors the others caused, and
\* recorded one invalid value error for each raw value it failed to coerce
AllVisited ==
    /\ \A i \in WithoutValues : DefaultOrMissing(i, Dangling(parameters[i].name))
    /\ \A i \in (DOMAIN parameters) \ WithoutValues :
        /\ result'[i] = FromValues(parameters[i],
                                   Get(assigned_parameters, parameters[i].name))
        /\ ( \/ parameters[i].is_variadic
             \/ Len(Get(assigned_parameters, parameters[i].name)) = 1 )
           => Cardinality(InvalidValuesOf(errors', parameters[i].name))
                = Cardinality(Failing(Get(assigned_parameters, parameters[i].name),
                                      parameters[i].type))

\* C26: no error ends a pass early.  feed_one handles every value whatever
\* errors were recorded before (a letter of a cluster that is unknown or no
\* boolean records a missing value error, and the rest of the cluster and
\* the values after it are still handled); finish visits every parameter
\* and every raw value and records one error for each coercion that fails;
\* self.errors only grows: no entry is ever removed or moved.
C26_NoShortCircuit ==
    [][ /\ IsPrefix(errors, errors')
        /\ FedStep => ErrorsIgnored
        /\ (FedStep /\ LastOf(steps') = "short")
           => ClusterHandled(Letters(PATTERN_SHORT_FLAG(LastOf(fed')).group1),
                             PATTERN_SHORT_FLAG(LastOf(fed')).group3)
        /\ FinishStep => AllVisited ]_vars

\* the first letter of the cluster -xvf is unknown; the letters after it
\* and the value after the cluster were handled all the same
C26_Witness ==
    /\ pc = "feeding"
    /\ parameters = ParamsBool
    /\ fed = <<Short(<<"x", "v", "f">>), Short(<<"q">>)>>
    /\ errors = <<MissingValueFor(<<"-", "x">>)>>
    /\ PendingOf(assigned_parameters, <<"v">>) = <<s_true>>
    /\ PendingOf(assigned_parameters, <<"f">>) = <<s_true>>
    /\ PendingOf(assigned_parameters, <<"q">>) = <<s_true>>

(***************************************************************************)
(* The cursor over the positional parameters, checked under Spec.          *)
(***************************************************************************)
Positionals == positional_parameters(parameters)

\* the cursor is within the positional parameters or just past the last
CursorInRange(cursor) == 0 <= cursor /\ cursor <= Len(Positionals)

\* the cursor is not past any variadic positional parameter
NotPastVariadic(cursor) ==
    \A j \in DOMAIN Positionals : Positionals[j].is_variadic => cursor <= j - 1

\* the positional parameters declared after a variadic one
AfterVariadic ==
    {j \in DOMAIN Positionals :
        \E k \in 1 .. (j - 1) : Positionals[k].is_variadic}

\* C27: in every reachable state of the parser
\* next_positional_parameter_index lies between 0 and the number of
\* positional parameters, it never decreases, and it never moves past a
\* variadic positional parameter; so a positional parameter declared after
\* a variadic one never receives a value from a positional token, and
\* self.rest receives a value only when the cursor equals the number of
\* positional parameters.
C27_Cursor ==
    [][ /\ CursorInRange(next_positional_parameter_index)
        /\ CursorInRange(next_positional_parameter_index')
        /\ next_positional_parameter_index' >= next_positional_parameter_index
        /\ NotPastVariadic(next_positional_parameter_index')
        /\ rest' # rest
           => next_positional_parameter_index = Len(Positionals)
        /\ (FedStep /\ LastOf(steps') = "positional")
           => \A j \in AfterVariadic :
                PendingOf(assigned_parameters', Positionals[j].name)
                    = PendingOf(assigned_parameters, Positionals[j].name) ]_vars

\* both positional tokens went to the variadic files, none to dst, which is
\* declared after it
C27_Witness ==
    /\ pc = "feeding"
    /\ parameters = ParamsLate
    /\ fed = <<<<"1">>, EndOfFlags, <<"x">>>>
    /\ next_positional_parameter_index = 0
    /\ PendingOf(assigned_parameters, s_files) = <<<<"1">>, <<"x">>>>
    /\ PendingOf(assigned_parameters, s_dst) = <<>>

(***************************************************************************)
(* The shape of the values returned, checked under Spec.                   *)
(***************************************************************************)
\* C28: in every binding parse_function_parameters returns, those whose
\* values came from a prompt included, a variadic parameter is bound to a
\* tuple of typed values and a parameter that is not variadic to a single
\* value.
C28_TupleOrScalar ==
    pc \in {"returned", "called"}
    => \A i \in DOMAIN parameters :
          IF parameters[i].is_variadic
          THEN result[i].t = "tuple"
          ELSE result[i].t \notin {"tuple", Unbound.t}

(***************************************************************************)
(* What parse_function_parameters returns, checked under Spec.             *)
(***************************************************************************)
\* the parameters that are no flags
PositionalIndexes == (DOMAIN parameters) \ FlagIndexes

\* the entries of by_name under the key
EntriesOf(key) == {e \in DOMAIN returned.by_name : returned.by_name[e].key = key}

\* C29: whenever parse_function_parameters returns, every parameter has
\* exactly one value: by_position has one entry for each parameter that is
\* no flag, in the order of the parameters, and by_name exactly one entry
\* for each flag under its python_name (the lookup assignments[param] never
\* raises); and when it is not interactive, a finish that recorded no error
\* left no parameter unbound, so that it never fails for missing arguments
\* alone.
C29_OneValueEach ==
    /\ returned.raised # "KeyError"
    /\ pc \in {"returned", "called"}
       => /\ returned.raised = ""
          /\ \A i \in DOMAIN parameters : result[i] # Unbound
          /\ returned.by_position = Pick(result, PositionalIndexes)
          /\ Len(returned.by_name) = Cardinality(FlagIndexes)
          /\ \A i \in FlagIndexes :
                /\ Cardinality(EntriesOf(python_name(parameters[i]))) = 1
                /\ \A e \in EntriesOf(python_name(parameters[i])) :
                      returned.by_name[e].value = result[i]
    /\ (pc = "finished" /\ ~allow_missing_arguments /\ errors = <<>>)
       => MissingParams(result) = {}
    /\ pc = "failed" => errors # <<>>

\* foo --count=3 returned the name by position, and count and dry-run
\* under c__count and dry_run
C29_Witness ==
    /\ pc = "returned"
    /\ parameters = ParamsCount
    /\ ~allow_missing_arguments
    /\ fed = <<s_foo, LongEq(s_count, <<"3">>)>>
    /\ returned.by_position = <<StrValue(s_foo)>>
    /\ returned.by_name
         = <<[key |-> <<"c", "_", "_", "c", "o", "u", "n", "t">>, value |-> IntValue(3)],
             [key |-> <<"d", "r", "y", "_", "r", "u", "n">>, value |-> BoolValue(FALSE)]>>

(***************************************************************************)
(* The prompts App.run attaches, checked under SpecPrepare.                *)
(***************************************************************************)
\* the prompts written for the parameter of that name
DeclaredFor(name) ==
    {user_provided_parameters[u].prompt :
        u \in {v \in DOMAIN user_provided_parameters :
                  user_provided_parameters[v].name = name}}

\* C30: when the Parameter list a command was registered with covers only
\* some of the parameters of the function, or lists them in another order,
\* the prompt written for the parameter named X is attached to the parser's
\* parameter whose python_name is X and to no other, and a parameter
\* without an entry in the list keeps no prompt.
C30_PromptByName ==
    pc = "prepared"
    => \A i \in DOMAIN parameters :
          IF DeclaredFor(python_name(parameters[i])) = {}
          THEN prompts[i] = None
          ELSE prompts[i] \in DeclaredFor(python_name(parameters[i]))

=============================================================================
